---- MODULE Spec2Model ----
(***************************************************************************)
(* Model of the listing pipeline of src/central_processing.py:             *)
(* AddressNormalizer, PropertyMatcher, DataConsolidator,                   *)
(* PropertyClassifier and CentralProcessingNode.process_listings.          *)
(* An exception of the code is a status "st" other than "ok".              *)
(*                                                                         *)
(* Python strings are sequences of one-character strings.  Python floats   *)
(* are IEEE doubles: the sums of match scores are represented exactly as   *)
(* pairs <<c, e>> (see "Floats"), the quotient and the product of          *)
(* detect_conflicts as 53 significand bits and an exponent (see "Doubles   *)
(* in binary"), the price read from a text as the whole part of the        *)
(* nearest double and whether it has a fraction.                           *)
(***************************************************************************)
EXTENDS Integers, Sequences, FiniteSets, TLC

(***************************************************************************)
(* Bounds of the model.                                                    *)
(***************************************************************************)
MaxPieces == 2        \* words joined into a generated address
MaxEdits == 1         \* keys changed in the second listing of a matcher run
MaxListings == 3      \* listings in one process_listings input
MaxGroup == 3         \* listings of the group of a consolidator run
MaxDay == 2           \* extraction days of the listings of that group
MaxShared == 4  \* listings of two interleaved invocations together
MaxFieldListings == 3  \* listings in an input of the runs on field shapes

(***************************************************************************)
(* Characters.                                                             *)
(***************************************************************************)
UpperLetters ==
  <<"A","B","C","D","E","F","G","H","I","J","K","L","M",
    "N","O","P","Q","R","S","T","U","V","W","X","Y","Z">>
LowerLetters ==
  <<"a","b","c","d","e","f","g","h","i","j","k","l","m",
    "n","o","p","q","r","s","t","u","v","w","x","y","z">>
DigitChars == <<"0","1","2","3","4","5","6","7","8","9">>

Range(s) == {s[i] : i \in 1..Len(s)}

IsUpperLetter(ch) == ch \in Range(UpperLetters)
IsLowerLetter(ch) == ch \in Range(LowerLetters)
IsDigit(ch) == ch \in Range(DigitChars)
\* the whitespace of \s and of str.strip() among the characters of the model:
\* the space, tab, newline, carriage return and form feed
IsSpace(ch) == ch \in {" ", "\t", "\n", "\r", "\f"}
\* \w of the re module: letters, digits and the underscore
IsWord(ch) == IsUpperLetter(ch) \/ IsLowerLetter(ch) \/ IsDigit(ch) \/ ch = "_"

\* str.upper() on one character
UpperChar(ch) ==
  IF IsLowerLetter(ch)
  THEN UpperLetters[CHOOSE i \in 1..26 : LowerLetters[i] = ch]
  ELSE ch

\* str.upper()
Upper(s) == [i \in 1..Len(s) |-> UpperChar(s[i])]

Max0(a) == IF a >= 0 THEN a ELSE 0

\* the j-th smallest element of a set of integers
NthOf(S, j) == CHOOSE i \in S : Cardinality({k \in S : k <= i}) = j

\* s[lo-1:hi] of Python, the empty string when the slice is empty
Slice(s, lo, hi) == IF lo > hi THEN <<>> ELSE SubSeq(s, lo, hi)

\* ''.join(pieces[lo-1:hi])
RECURSIVE Join(_, _, _)
Join(pieces, lo, hi) ==
  IF lo > hi THEN <<>>
  ELSE IF lo = hi THEN pieces[lo]
  ELSE LET mid == (lo + hi) \div 2
       IN Join(pieces, lo, mid) \o Join(pieces, mid + 1, hi)

\* str.strip(): drop leading and trailing whitespace
Strip(s) ==
  LET solid == {i \in 1..Len(s) : ~IsSpace(s[i])}
  IN IF solid = {} THEN <<>>
     ELSE Slice(s, NthOf(solid, 1), NthOf(solid, Cardinality(solid)))

\* s.startswith(p, i-1)
StartsAt(s, i, p) ==
  /\ i + Len(p) - 1 <= Len(s)
  /\ SubSeq(s, i, i + Len(p) - 1) = p

\* needle in hay (substring test of Python's "in" on strings)
Contains(hay, needle) ==
  \E i \in 1..(Len(hay) + 1) : StartsAt(hay, i, needle)

\* \b of the re module at the gap before position i of s
WordBoundary(s, i) ==
  LET before == i > 1 /\ i - 1 <= Len(s) /\ IsWord(s[i - 1])
      after == i >= 1 /\ i <= Len(s) /\ IsWord(s[i])
  IN before # after

(***************************************************************************)
(* AddressNormalizer.                                                      *)
(***************************************************************************)
STREET_SUFFIXES ==
  << << <<"S","T">>, <<"S","T","R","E","E","T">> >>,
     << <<"A","V","E">>, <<"A","V","E","N","U","E">> >>,
     << <<"B","L","V","D">>, <<"B","O","U","L","E","V","A","R","D">> >>,
     << <<"D","R">>, <<"D","R","I","V","E">> >>,
     << <<"R","D">>, <<"R","O","A","D">> >>,
     << <<"L","N">>, <<"L","A","N","E">> >>,
     << <<"C","T">>, <<"C","O","U","R","T">> >>,
     << <<"P","L">>, <<"P","L","A","C","E">> >>,
     << <<"T","E","R">>, <<"T","E","R","R","A","C","E">> >>,
     << <<"W","A","Y">>, <<"W","A","Y">> >>,
     << <<"C","I","R">>, <<"C","I","R","C","L","E">> >>,
     << <<"P","K","W","Y">>, <<"P","A","R","K","W","A","Y">> >> >>

DIRECTIONALS ==
  << << <<"N">>, <<"N","O","R","T","H">> >>,
     << <<"S">>, <<"S","O","U","T","H">> >>,
     << <<"E">>, <<"E","A","S","T">> >>,
     << <<"W">>, <<"W","E","S","T">> >>,
     << <<"N","E">>, <<"N","O","R","T","H","E","A","S","T">> >>,
     << <<"N","W">>, <<"N","O","R","T","H","W","E","S","T">> >>,
     << <<"S","E">>, <<"S","O","U","T","H","E","A","S","T">> >>,
     << <<"S","W">>, <<"S","O","U","T","H","W","E","S","T">> >> >>

\* re.sub(pattern, repl, s) for a pattern whose matches cannot overlap:
\* len[i] is the length of the match that starts at position i (0 when the
\* pattern does not match there) and repl[i] what replaces it.  Characters
\* outside every match are copied.
Substitute(s, len, repl) ==
  LET starts == {i \in 1..Len(s) : len[i] > 0}
      inside(i) == \E m \in starts : m < i /\ i < m + len[m]
      pieces == [i \in 1..Len(s) |->
                   IF i \in starts THEN repl[i]
                   ELSE IF inside(i) THEN <<>>
                   ELSE <<s[i]>>]
  IN Join(pieces, 1, Len(s))

\* length of the maximal run of characters of the set chars from position i
RunFrom(s, i, chars) ==
  LET stops == {j \in i..Len(s) : s[j] \notin chars}
  IN IF stops = {} THEN Max0(Len(s) - i + 1)
     ELSE (CHOOSE j \in stops : \A k \in stops : j <= k) - i

DigitRun(s, i) == RunFrom(s, i, Range(DigitChars))
ZeroRun(s, i) == RunFrom(s, i, {"0"})
SpaceRun(s, i) == RunFrom(s, i, {ch \in Range(s) : IsSpace(ch)})

\* re.sub(r'\s+', ' ', s): a match starts at each first space of a run
CollapseSpaces(s) ==
  Substitute(s,
    [i \in 1..Len(s) |->
       IF IsSpace(s[i]) /\ (i = 1 \/ ~IsSpace(s[i - 1]))
       THEN SpaceRun(s, i) ELSE 0],
    [i \in 1..Len(s) |-> <<" ">>])

KeptByPunctuationFilter(ch) == IsWord(ch) \/ IsSpace(ch) \/ ch = "-"

\* re.sub(r'[^\w\s\-]', '', s)
RemovePunctuation(s) == SelectSeq(s, KeptByPunctuationFilter)

\* a normalizer that expands no abbreviation
ExpandWordNever(s, abbr, full) == s

\* re.sub(rf'\b{abbr}\b', full, s): both ends of a match are word
\* boundaries, so two matches cannot overlap
ExpandWord(s, abbr, full) ==
  Substitute(s,
    [i \in 1..Len(s) |->
       IF /\ StartsAt(s, i, abbr)
          /\ WordBoundary(s, i)
          /\ WordBoundary(s, i + Len(abbr))
       THEN Len(abbr) ELSE 0],
    [i \in 1..Len(s) |-> full])

\* for abbr, full in table.items(): addr = re.sub(rf'\b{abbr}\b', full, addr)
\* restricted to the entries lo..hi of the table, applied in table order
\* (an empty string stays empty, which also settles each half before the next)
RECURSIVE ExpandRange(_, _, _, _)
ExpandRange(s, table, lo, hi) ==
  IF lo > hi THEN s
  ELSE IF lo = hi THEN ExpandWord(s, table[lo][1], table[lo][2])
  ELSE LET mid == (lo + hi) \div 2
           left == ExpandRange(s, table, lo, mid)
       IN IF left = <<>> THEN <<>>
          ELSE ExpandRange(left, table, mid + 1, hi)

ExpandTable(s, table) == ExpandRange(s, table, 1, Len(table))

\* a normalizer that keeps leading zeros
KeepLeadingZeros(s) == s

\* re.sub(r'\b0+(\d+)\b', r'\1', s).  The pattern matches a whole digit run
\* that starts with "0", has at least two digits and is delimited by word
\* boundaries; group 1 is the run without its leading zeros (one "0" is
\* given back when the run is all zeros).
StripLeadingZeros(s) ==
  Substitute(s,
    [i \in 1..Len(s) |->
       IF /\ s[i] = "0"
          /\ WordBoundary(s, i)
          /\ DigitRun(s, i) >= 2
          /\ WordBoundary(s, i + DigitRun(s, i))
       THEN DigitRun(s, i) ELSE 0],
    [i \in 1..Len(s) |->
       LET run == DigitRun(s, i)
           zeros == ZeroRun(s, i)
           drop == IF zeros = run THEN run - 1 ELSE zeros
       IN Slice(s, i + drop, i + run - 1)])

\* the alternatives of (UNIT|APT|SUITE|STE|#), in the order the regex tries them
UNIT_MARKERS ==
  << <<"U","N","I","T">>, <<"A","P","T">>, <<"S","U","I","T","E">>,
     <<"S","T","E">>, <<"#">> >>

UNIT_TOKEN == <<"U","N","I","T"," ">>

\* length of the first alternative of UNIT_MARKERS matching at i, 0 if none
UnitMarkerAt(s, i) ==
  LET hits == {k \in 1..Len(UNIT_MARKERS) : StartsAt(s, i, UNIT_MARKERS[k])}
  IN IF hits = {} THEN 0
     ELSE Len(UNIT_MARKERS[CHOOSE k \in hits : \A h \in hits : k <= h])

\* re.sub(r'\b(UNIT|APT|SUITE|STE|#)\s*', 'UNIT ', s): a match starts at a
\* word boundary and spans the marker and the whitespace after it
NormalizeUnits(s) ==
  Substitute(s,
    [i \in 1..Len(s) |->
       IF UnitMarkerAt(s, i) > 0 /\ WordBoundary(s, i)
       THEN UnitMarkerAt(s, i) + SpaceRun(s, i + UnitMarkerAt(s, i))
       ELSE 0],
    [i \in 1..Len(s) |-> UNIT_TOKEN])

\* AddressNormalizer.normalize_address on a str argument.  Every step maps
\* the empty string to the empty string.
normalize_address(address) ==
  IF address = <<>> THEN <<>>
  ELSE LET a1 == Strip(Upper(address))
           a2 == CollapseSpaces(a1)
           a3 == RemovePunctuation(a2)
           a4 == ExpandTable(a3, STREET_SUFFIXES)
           a5 == ExpandTable(a4, DIRECTIONALS)
           a6 == StripLeadingZeros(a5)
           a7 == NormalizeUnits(a6)
       IN IF \/ a1 = <<>> \/ a2 = <<>> \/ a3 = <<>>
             \/ a4 = <<>> \/ a5 = <<>> \/ a6 = <<>>
          THEN <<>>
          ELSE Strip(a7)

\* [p.strip() for p in address.split(',')]
SplitComma(s) ==
  LET commas == {i \in 1..Len(s) : s[i] = ","}
      n == Cardinality(commas)
      cut(k) == IF k = 0 THEN 0
                ELSE IF k > n THEN Len(s) + 1
                ELSE NthOf(commas, k)
  IN [k \in 1..(n + 1) |-> Strip(Slice(s, cut(k - 1) + 1, cut(k) - 1))]

\* group 2 of r'([A-Z]{2})\s*(\d{5}(?:-\d{4})?)?' when the digits start at i
ZipAt(s, i) ==
  IF DigitRun(s, i) < 5 THEN <<>>
  ELSE IF /\ i + 5 <= Len(s)
          /\ s[i + 5] = "-"
          /\ DigitRun(s, i + 6) >= 4
       THEN SubSeq(s, i, i + 9)
       ELSE SubSeq(s, i, i + 4)

\* lines 98-118 given the parts of the address
ComponentsOf(address, parts) ==
  LET state_zip == IF Len(parts) >= 3 THEN parts[3] ELSE <<>>
      state_zip_match ==
        /\ Len(parts) >= 3
        /\ Len(state_zip) >= 2
        /\ IsUpperLetter(state_zip[1])
        /\ IsUpperLetter(state_zip[2])
  IN [full_address |-> address,
      street |-> parts[1],
      city |-> IF Len(parts) >= 2 THEN parts[2] ELSE <<>>,
      state |-> IF state_zip_match THEN SubSeq(state_zip, 1, 2) ELSE <<>>,
      zip |-> IF state_zip_match
              THEN ZipAt(state_zip, 3 + SpaceRun(state_zip, 3))
              ELSE <<>>]

\* AddressNormalizer.extract_address_components on a str argument
extract_address_components(address) ==
  ComponentsOf(address, SplitComma(address))

(***************************************************************************)
(* Python values held in raw_fields.  A mapping is a function from Fields  *)
(* to values; the kind "absent" marks a key the mapping does not have.     *)
(* A list is held by its items and a dict by its entries in insertion      *)
(* order, keys distinct; items, keys and values are values.                *)
(***************************************************************************)
Fields ==
  {"address", "address_full", "address_street", "address_city",
   "address_state", "address_zip", "price", "unformattedPrice", "beds",
   "baths", "area", "latitude", "longitude", "homeType", "homeStatus",
   "daysOnZillow", "square_feet", "sqft", "property_type", "days_on_market"}

Absent == [k |-> "absent", s |-> <<>>, n |-> 0, items |-> <<>>]
None == [k |-> "none", s |-> <<>>, n |-> 0, items |-> <<>>]
Str(chars) == [k |-> "str", s |-> chars, n |-> 0, items |-> <<>>]
Num(i) == [k |-> "num", s |-> <<>>, n |-> i, items |-> <<>>]
List(items) == [k |-> "list", s |-> <<>>, n |-> 0, items |-> items]
Dict(pairs) ==
  [k |-> "dict", s |-> <<>>, n |-> 0,
   items |-> [h \in 1..Len(pairs) |->
                [key |-> pairs[h][1], value |-> pairs[h][2]]]]
EmptyStr == Str(<<>>)

\* isinstance(v, (list, dict))
IsNested(v) == v.k \in {"list", "dict"}

\* mapping.get(key)
Get(mapping, key) == IF mapping[key].k = "absent" THEN None ELSE mapping[key]
\* mapping.get(key, default)
GetOr(mapping, key, default) ==
  IF mapping[key].k = "absent" THEN default ELSE mapping[key]

\* bool(v)
Truthy(v) ==
  \/ v.k = "str" /\ v.s # <<>>
  \/ v.k = "num" /\ v.n # 0
  \/ IsNested(v) /\ Len(v.items) > 0

\* a or b
Or(a, b) == IF Truthy(a) THEN a ELSE b

\* a == b: lists are equal item by item, dicts when they hold equal values
\* under the same keys in any order, and values of different types differ
RECURSIVE PyEquals(_, _)
PyEquals(a, b) ==
  IF a.k # b.k THEN FALSE
  ELSE IF a.k = "list"
  THEN /\ Len(a.items) = Len(b.items)
       /\ \A h \in 1..Len(a.items) : PyEquals(a.items[h], b.items[h])
  ELSE IF a.k = "dict"
  THEN /\ Len(a.items) = Len(b.items)
       /\ \A h \in 1..Len(a.items) : \E g \in 1..Len(b.items) :
            /\ PyEquals(a.items[h].key, b.items[g].key)
            /\ PyEquals(a.items[h].value, b.items[g].value)
  ELSE a = b

\* the mapping without keys
NoFields == [f \in Fields |-> Absent]

(***************************************************************************)
(* Floats.  Every float of the score computation is a multiple of 2^-57    *)
(* near a whole number c of hundredths.  <<c, e>> stands for the double    *)
(*     (c * 2^57 + e) / (100 * 2^57),                                      *)
(* so e is the distance of the double from c/100 in units of 1/(100*2^57). *)
(* FAdd is IEEE-754 addition, round to nearest, ties to even.              *)
(***************************************************************************)
FZero == [c |-> 0, e |-> 0]
FOne == [c |-> 100, e |-> 0]

\* float literals of the source: the double nearest to c/100
Lit005 == [c |-> 5, e |-> 40]
Lit006 == [c |-> 6, e |-> -32]
Lit007 == [c |-> 7, e |-> 96]
Lit010 == [c |-> 10, e |-> 80]
Lit015 == [c |-> 15, e |-> -80]
Lit030 == [c |-> 30, e |-> -160]
Lit040 == [c |-> 40, e |-> 320]
Lit070 == [c |-> 70, e |-> -640]

\* 2^57 modulo m, for m below 2^15, computed as (2^19)^3
Pow57Mod(m) ==
  LET a == 524288 % m
  IN (((a * a) % m) * a) % m

\* spacing of the doubles around the value, in units of 2^-57
Ulp(c, e) ==
  IF c > 100 \/ (c = 100 /\ e >= 0) THEN 32
  ELSE IF c > 50 \/ (c = 50 /\ e >= 0) THEN 16
  ELSE IF c > 25 \/ (c = 25 /\ e >= 0) THEN 8
  ELSE IF c >= 13 THEN 4
  ELSE IF c >= 7 THEN 2
  ELSE 1

\* the double nearest to the exact sum (c * 2^57 + e) / (100 * 2^57), ties
\* to even; g is the spacing of the doubles there and mm the sum modulo 2g,
\* both in units of 2^-57
RoundToEven(c, e, g, mm) ==
  LET r == mm % g
      down == 2 * r < g \/ (2 * r = g /\ ((mm - r) \div g) % 2 = 0)
  IN IF r = 0 THEN [c |-> c, e |-> e]
     ELSE IF down THEN [c |-> c, e |-> e - 100 * r]
     ELSE [c |-> c, e |-> e + 100 * (g - r)]

RoundOnGrid(c, e, g) ==
  RoundToEven(c, e, g,
    ((((c % (200 * g)) * Pow57Mod(200 * g)) + e) % (200 * g)) \div 100)

\* x + y on doubles
FAdd(x, y) == RoundOnGrid(x.c + y.c, x.e + y.e, Ulp(x.c + y.c, x.e + y.e))

\* x >= y on doubles
FGe(x, y) == x.c > y.c \/ (x.c = y.c /\ x.e >= y.e)
\* x > y on doubles
FGt(x, y) == x.c > y.c \/ (x.c = y.c /\ x.e > y.e)

(***************************************************************************)
(* Doubles in binary, for the quotient and the product of                  *)
(* detect_conflicts.  [sig, exp] stands for the double                     *)
(*     sig[1].sig[2]...sig[53] (binary) * 2^exp,   sig[1] = 1,             *)
(* a significand of 53 bits, most significant first.                       *)
(***************************************************************************)
SigBits == 53

NoDouble == [sig |-> <<>>, exp |-> 0]

\* the greatest and the least element of a set of whole numbers
Greatest(S) == CHOOSE x \in S : \A y \in S : y <= x
Least(S) == CHOOSE x \in S : \A y \in S : x <= y

RECURSIVE Pow2(_)
Pow2(n) == IF n = 0 THEN 1 ELSE 2 * Pow2(n - 1)

\* the bits of a natural number, most significant first; none for 0
RECURSIVE BitsOf(_)
BitsOf(n) == IF n = 0 THEN <<>> ELSE Append(BitsOf(n \div 2), n % 2)

\* the four bits of a whole number below 16
Nibble(q) == <<q \div 8, (q \div 4) % 2, (q \div 2) % 2, q % 2>>

\* 4 * n more bits of the binary expansion of r/m, for 0 <= r < m < 2^27,
\* after the bits already found, and the remainder left
RECURSIVE LongDivision(_, _, _, _)
LongDivision(bits, r, m, n) ==
  IF n = 0 THEN [bits |-> bits, r |-> r]
  ELSE LongDivision(bits \o Nibble((16 * r) \div m), (16 * r) % m, m, n - 1)

\* the significand plus one unit in its last place
NextUp(x) ==
  LET zeros == {k \in 1..Len(x.sig) : x.sig[k] = 0}
      z == Greatest(zeros)
  IN IF zeros = {}
     THEN [sig |-> [k \in 1..Len(x.sig) |-> IF k = 1 THEN 1 ELSE 0],
           exp |-> x.exp + 1]
     ELSE [sig |-> [k \in 1..Len(x.sig) |->
                      IF k < z THEN x.sig[k] ELSE IF k = z THEN 1 ELSE 0],
           exp |-> x.exp]

\* round to nearest, ties to even: x is the value cut after SigBits bits,
\* half and rest tell how what was cut off compares with half a unit in
\* the last place
RoundNearestEven(x, half, rest) ==
  IF half /\ (rest \/ x.sig[Len(x.sig)] = 1) THEN NextUp(x) ELSE x

\* the exponent of d/m: the e with 2^e <= d/m < 2^(e+1), within -30..30
ExponentOf(d, m) ==
  LET above == {e \in 0..30 : d \div Pow2(e) >= m}
      below == {e \in 1..30 : d >= (m + Pow2(e) - 1) \div Pow2(e)}
  IN IF above # {} THEN Greatest(above) ELSE -Least(below)

\* the division of dd by mm, 1 <= dd/mm < 2, carried to SigBits bits
Divided(dd, mm, e) ==
  LET q == LongDivision(<<1>>, dd - mm, mm, (SigBits - 1) \div 4)
  IN RoundNearestEven([sig |-> q.bits, exp |-> e],
                      2 * q.r >= mm, 2 * q.r > mm)

\* d / m on doubles, for whole numbers 0 < d, 0 < m below 2^26
FDiv(d, m) ==
  LET e == ExponentOf(d, m)
  IN IF e >= 0 THEN Divided(d, m * Pow2(e), e)
     ELSE Divided(d * Pow2(-e), m, e)

\* the bits in fours, as whole numbers below 16, zeros put in front
ToNibbles(bits) ==
  LET pad == (4 - (Len(bits) % 4)) % 4
      bit(k) == IF k <= pad THEN 0 ELSE bits[k - pad]
  IN [n \in 1..((Len(bits) + pad) \div 4) |->
        8 * bit(4 * n - 3) + 4 * bit(4 * n - 2) + 2 * bit(4 * n - 1) + bit(4 * n)]

\* the bits without the zeros in front
StripZeros(bits) ==
  LET ones == {k \in 1..Len(bits) : bits[k] = 1}
  IN IF ones = {} THEN <<>> ELSE SubSeq(bits, Least(ones), Len(bits))

\* the bits of nibbles * f + carry, for a small whole number f
RECURSIVE TimesNibbles(_, _, _)
TimesNibbles(nibbles, f, carry) ==
  IF nibbles = <<>> THEN BitsOf(carry)
  ELSE TimesNibbles(SubSeq(nibbles, 1, Len(nibbles) - 1), f,
                    (nibbles[Len(nibbles)] * f + carry) \div 16)
       \o Nibble((nibbles[Len(nibbles)] * f + carry) % 16)

\* the bits of bits * f
TimesBits(bits, f) == StripZeros(TimesNibbles(ToNibbles(bits), f, 0))

\* the double nearest to the whole number whose bits are given, the last
\* of them worth 2^e
Rounded(bits, e) ==
  RoundNearestEven(
    [sig |-> SubSeq(bits, 1, SigBits), exp |-> e + Len(bits) - 1],
    Len(bits) > SigBits /\ bits[SigBits + 1] = 1,
    \E k \in (SigBits + 2)..Len(bits) : bits[k] = 1)

\* x * f on doubles, for a small whole number f > 0
FTimes(x, f) == Rounded(TimesBits(x.sig, f), x.exp - (SigBits - 1))

\* x > y on positive doubles
FGreater(x, y) ==
  \/ x.exp > y.exp
  \/ /\ x.exp = y.exp
     /\ \E k \in 1..SigBits :
          /\ x.sig[k] > y.sig[k]
          /\ \A h \in 1..(k - 1) : x.sig[h] = y.sig[h]

(***************************************************************************)
(* Conversions and calls that can raise.                                   *)
(***************************************************************************)
\* decimal value of a string of digits
RECURSIVE DigitsValue(_)
DigitsValue(s) ==
  IF s = <<>> THEN 0
  ELSE 10 * DigitsValue(SubSeq(s, 1, Len(s) - 1))
         + (CHOOSE d \in 0..9 : DigitChars[d + 1] = s[Len(s)])

AllDigits(s) == s # <<>> /\ \A i \in 1..Len(s) : IsDigit(s[i])

\* float(v): the strings of the model are made of digits, letters other than
\* those of "inf", "nan" and exponents, "$", "," and spaces, so a string
\* converts exactly when, stripped, it is a run of digits
ToFloat(v) ==
  IF v.k = "num" THEN [st |-> "ok", n |-> v.n]
  ELSE IF v.k = "str"
       THEN IF AllDigits(Strip(v.s))
            THEN [st |-> "ok", n |-> DigitsValue(Strip(v.s))]
            ELSE [st |-> "ValueError", n |-> 0]
       ELSE [st |-> "TypeError", n |-> 0]

\* a matcher that compares addresses in upper case but otherwise as written
UpperCaseOnly(v) ==
  IF ~Truthy(v) THEN [st |-> "ok", s |-> <<>>]
  ELSE IF v.k = "str" THEN [st |-> "ok", s |-> Upper(v.s)]
  ELSE [st |-> "AttributeError", s |-> <<>>]

\* AddressNormalizer.normalize_address on any value: falsy values give "",
\* a truthy value that is not a str has no upper()
normalize_value(v) ==
  IF ~Truthy(v) THEN [st |-> "ok", s |-> <<>>]
  ELSE IF v.k = "str" THEN [st |-> "ok", s |-> normalize_address(v.s)]
  ELSE [st |-> "AttributeError", s |-> <<>>]

\* AddressNormalizer.extract_address_components on any value: only a str
\* has split()
extract_value(v) ==
  IF v.k = "str"
  THEN [st |-> "ok", comp |-> extract_address_components(v.s)]
  ELSE [st |-> "AttributeError", comp |-> extract_address_components(<<>>)]

(***************************************************************************)
(* PropertyMatcher.calculate_match_score.                                  *)
(***************************************************************************)
Max(a, b) == IF a >= b THEN a ELSE b
Abs(a) == IF a >= 0 THEN a ELSE -a

\* abs(x - y) / max(x, y) < pct/100, for max(x, y) # 0.  For integers below
\* 2^31 the double quotient is on the same side of the double literal as the
\* exact quotient is of pct/100.
\* 100 * abs(x - y) < pct * max(x, y) is decided on max(x, y) = 100 * q + r
\* to keep the products small.
VarianceBelow(x, y, pct) ==
  LET q == Max(x, y) \div 100
      r == Max(x, y) % 100
      e == Abs(x - y) - pct * q
  IN IF Max(x, y) < 0 THEN TRUE
     ELSE IF e < 0 THEN TRUE
     ELSE IF e >= pct THEN FALSE
     ELSE 100 * e < pct * r

\* listing.get('address_full') or listing.get('address', '')
AddressOf(listing) ==
  Or(Get(listing, "address_full"), GetOr(listing, "address", EmptyStr))

\* lines 159-164: the address signal
AddressSignal(addr1, addr2) ==
  IF addr1 # <<>> /\ addr2 # <<>>
  THEN IF addr1 = addr2 THEN Lit040
       ELSE IF Contains(addr2, addr1) \/ Contains(addr1, addr2) THEN Lit030
       ELSE FZero
  ELSE FZero

\* lines 169-183: city, state and zip of one listing, structured fields
\* first, components of the full address when city or state is missing
LocatedBy(city, state, zip, ext) ==
  IF ~Truthy(city) \/ ~Truthy(state)
  THEN [st |-> ext.st,
        city |-> Or(city, Str(ext.comp.city)),
        state |-> Or(state, Str(ext.comp.state)),
        zip |-> Or(zip, Str(ext.comp.zip))]
  ELSE [st |-> "ok", city |-> city, state |-> state, zip |-> zip]

\* lines 169-183 for one listing
LocationOf(listing) ==
  LocatedBy(Or(Get(listing, "address_city"), EmptyStr),
            Or(Get(listing, "address_state"), EmptyStr),
            Or(Get(listing, "address_zip"), EmptyStr),
            extract_value(AddressOf(listing)))

\* x and y and x.upper() == y.upper()
UpperEqual(x, y) ==
  IF ~(Truthy(x) /\ Truthy(y)) THEN [st |-> "ok", eq |-> FALSE]
  ELSE IF x.k # "str" \/ y.k # "str" THEN [st |-> "AttributeError", eq |-> FALSE]
  ELSE [st |-> "ok", eq |-> Upper(x.s) = Upper(y.s)]

\* total += weight when the condition holds
AddIf(condition, total, weight) ==
  IF condition THEN FAdd(total, weight) ELSE total

\* lines 185-200 given the outcomes of the comparisons of city and state
LocationMatch(city, state, zipEq) ==
  [st |-> IF city.st # "ok" THEN city.st ELSE state.st,
   f |-> AddIf(zipEq, AddIf(state.eq, AddIf(city.eq, FZero, Lit007), Lit007),
               Lit006)]

\* lines 185-200: location_match
LocationSignal(loc1, loc2) ==
  LocationMatch(
    UpperEqual(loc1.city, loc2.city),
    UpperEqual(loc1.state, loc2.state),
    Truthy(loc1.zip) /\ Truthy(loc2.zip) /\ PyEquals(loc1.zip, loc2.zip))

\* lines 204-207: the upper-cased property type of one listing
TypeOf(listing) ==
  LET t == Or(Get(listing, "homeType"), GetOr(listing, "property_type", EmptyStr))
  IN IF ~Truthy(t) THEN [st |-> "ok", s |-> <<>>]
     ELSE IF t.k = "str" THEN [st |-> "ok", s |-> Upper(t.s)]
     ELSE [st |-> "AttributeError", s |-> <<>>]

\* lines 212-213
SizeOf(listing) ==
  Or(Or(Get(listing, "area"), Get(listing, "square_feet")), Get(listing, "sqft"))

\* lines 230-231
PriceOf(listing) == Or(Get(listing, "unformattedPrice"), Get(listing, "price"))

\* lines 215-226 and 233-242: a numeric signal with its tiers, given as a
\* sequence of <<percent, contribution>>.  float(v1) is evaluated before
\* float(v2); ValueError and ZeroDivisionError are caught, TypeError is not.
RECURSIVE Tier(_, _, _, _)
Tier(x, y, tiers, k) ==
  IF k > Len(tiers) THEN FZero
  ELSE IF VarianceBelow(x, y, tiers[k][1]) THEN tiers[k][2]
  ELSE Tier(x, y, tiers, k + 1)

NumericSignal(v1, v2, tiers) ==
  LET f1 == ToFloat(v1)
      f2 == ToFloat(v2)
  IN IF ~(Truthy(v1) /\ Truthy(v2)) THEN [st |-> "ok", f |-> FZero]
     ELSE IF f1.st = "ValueError" THEN [st |-> "ok", f |-> FZero]
     ELSE IF f1.st = "TypeError" THEN [st |-> "TypeError", f |-> FZero]
     ELSE IF f2.st = "ValueError" THEN [st |-> "ok", f |-> FZero]
     ELSE IF f2.st = "TypeError" THEN [st |-> "TypeError", f |-> FZero]
     ELSE IF Max(f1.n, f2.n) = 0 THEN [st |-> "ok", f |-> FZero]
     ELSE [st |-> "ok", f |-> Tier(f1.n, f2.n, tiers, 1)]

SIZE_TIERS == << <<5, Lit015>>, <<10, Lit010>>, <<15, Lit005>> >>
PRICE_TIERS == << <<5, Lit010>>, <<20, Lit005>> >>

\* the first status of a sequence of statuses that is not "ok"
RECURSIVE FirstFailure(_)
FirstFailure(sts) ==
  IF sts = <<>> THEN "ok"
  ELSE IF Head(sts) # "ok" THEN Head(sts)
  ELSE FirstFailure(Tail(sts))

\* lines 147-244: the score accumulated from the five signals in the order
\* of the code, or the first exception
SumOfSignals(addr1, addr2, loc1, loc2, location, type1, type2, size, price) ==
  LET st == FirstFailure(<<addr1.st, addr2.st, loc1.st, loc2.st, location.st,
                           type1.st, type2.st, size.st, price.st>>)
  IN IF st # "ok" THEN [st |-> st, score |-> FZero]
     ELSE [st |-> "ok",
           score |->
             FAdd(FAdd(AddIf(type1.s # <<>> /\ type1.s = type2.s,
                             FAdd(FAdd(FZero, AddressSignal(addr1.s, addr2.s)),
                                  location.f),
                             Lit015),
                       size.f),
                  price.f)]

\* lines 150-242 given city, state and zip of the two listings
SignalsAt(listing1, listing2, loc1, loc2) ==
  SumOfSignals(
    normalize_value(AddressOf(listing1)), normalize_value(AddressOf(listing2)),
    loc1, loc2, LocationSignal(loc1, loc2),
    TypeOf(listing1), TypeOf(listing2),
    NumericSignal(SizeOf(listing1), SizeOf(listing2), SIZE_TIERS),
    NumericSignal(PriceOf(listing1), PriceOf(listing2), PRICE_TIERS))

\* PropertyMatcher.calculate_match_score: st is "ok" and score the float
\* returned, or st is the exception that propagates
calculate_match_score(listing1, listing2) ==
  SignalsAt(listing1, listing2, LocationOf(listing1), LocationOf(listing2))

\* the default threshold of is_match
MATCH_THRESHOLD == Lit070

\* lines 262-264: the decision on the outcome r of calculate_match_score
Decision(r) ==
  [st |-> r.st,
   match |-> r.st = "ok" /\ FGe(r.score, MATCH_THRESHOLD),
   score |-> r.score]

\* PropertyMatcher.is_match
is_match(listing1, listing2) ==
  Decision(calculate_match_score(listing1, listing2))

(***************************************************************************)
(* DataConsolidator.  A listing is a record [source_platform,              *)
(* extraction_timestamp, listing_id, raw_fields], as process_listings      *)
(* builds it from a RawListingRecord.                                      *)
(***************************************************************************)
\* a precedence that lets the last of the latest listings win
LastOfLatest(field_name, listings) ==
  LET candidates ==
        {k \in 1..Len(listings) : listings[k].raw_fields[field_name] # Absent}
      latest ==
        {k \in candidates :
           \A h \in candidates :
             listings[h].extraction_timestamp <= listings[k].extraction_timestamp}
  IN IF candidates = {} THEN None
     ELSE Get(listings[NthOf(latest, Cardinality(latest))].raw_fields,
              field_name)

\* DataConsolidator.get_field_precedence: the value of the first listing, in
\* group order, among those with the latest timestamp that have the key
get_field_precedence(field_name, listings) ==
  LET candidates ==
        {k \in 1..Len(listings) : listings[k].raw_fields[field_name] # Absent}
      latest ==
        {k \in candidates :
           \A h \in candidates :
             listings[h].extraction_timestamp <= listings[k].extraction_timestamp}
  IN IF candidates = {} THEN None
     ELSE Get(listings[NthOf(latest, 1)].raw_fields, field_name)

\* the decimal text of a natural number
RECURSIVE DecimalText(_)
DecimalText(n) ==
  IF n < 10 THEN <<DigitChars[n + 1]>>
  ELSE DecimalText(n \div 10) \o <<DigitChars[(n % 10) + 1]>>

\* ', '.join(parts)
RECURSIVE JoinComma(_)
JoinComma(parts) ==
  IF Len(parts) = 0 THEN <<>>
  ELSE IF Len(parts) = 1 THEN parts[1]
  ELSE parts[1] \o <<",", " ">> \o JoinComma(Tail(parts))

\* repr() of a str: between single quotes, or double quotes when it holds a
\* single quote and no double quote; the backslash and the enclosing quote
\* get a backslash, newline, tab and carriage return are written \n, \t
\* and \r, and the form feed by its code, \x0c.  The strings of the model
\* hold printable characters and these four; every other character that is
\* not printable would be written by its code as well.
Escaped(ch, quote) ==
  IF ch = "\\" \/ ch = quote THEN <<"\\", ch>>
  ELSE IF ch = "\n" THEN <<"\\", "n">>
  ELSE IF ch = "\t" THEN <<"\\", "t">>
  ELSE IF ch = "\r" THEN <<"\\", "r">>
  ELSE IF ch = "\f" THEN <<"\\", "x", "0", "c">>
  ELSE <<ch>>

QuoteFor(s) ==
  IF "'" \in Range(s) /\ "\"" \notin Range(s) THEN "\"" ELSE "'"

ReprText(s) ==
  <<QuoteFor(s)>>
  \o Join([h \in 1..Len(s) |-> Escaped(s[h], QuoteFor(s))], 1, Len(s))
  \o <<QuoteFor(s)>>

\* str(v): a list or dict is written with the repr() of what it holds
RECURSIVE Stringify(_)
Repr(v) == IF v.k = "str" THEN ReprText(v.s) ELSE Stringify(v)

Stringify(v) ==
  IF v.k = "str" THEN v.s
  ELSE IF v.k = "num"
  THEN IF v.n < 0 THEN <<"-">> \o DecimalText(-v.n) ELSE DecimalText(v.n)
  ELSE IF v.k = "list"
  THEN <<"[">>
       \o JoinComma([h \in 1..Len(v.items) |-> Repr(v.items[h])])
       \o <<"]">>
  ELSE IF v.k = "dict"
  THEN <<"{">>
       \o JoinComma([h \in 1..Len(v.items) |->
                       Repr(v.items[h].key) \o <<":", " ">>
                       \o Repr(v.items[h].value)])
       \o <<"}">>
  ELSE <<"N", "o", "n", "e">>

NoConflict ==
  [field |-> "", values |-> <<>>, kind |-> "none", variance_percent |-> NoDouble]

\* the default of variance_threshold, the float literal 0.05
VARIANCE_THRESHOLD == FDiv(5, 100)

\* a comparison that counts a variance equal to the threshold as a conflict
AtLeastThreshold(variance) ==
  variance # NoDouble /\ ~FGreater(VARIANCE_THRESHOLD, variance)

\* line 346: variance > variance_threshold; NoDouble stands for 0.0
ExceedsThreshold(variance) ==
  variance # NoDouble /\ FGreater(variance, VARIANCE_THRESHOLD)

\* line 344: (max_val - min_val) / max_val, for max_val > 0
VarianceOf(max_val, min_val) ==
  IF max_val = min_val THEN NoDouble ELSE FDiv(max_val - min_val, max_val)

\* lines 346-351 given the variance
NumericConflict(field_name, values, variance) ==
  IF ExceedsThreshold(variance)
  THEN [st |-> "ok",
        conflict |-> [field |-> field_name, values |-> values,
                      kind |-> "numeric",
                      variance_percent |-> FTimes(variance, 100)]]
  ELSE [st |-> "ok", conflict |-> NoConflict]

\* DataConsolidator.detect_conflicts with the default threshold.
\* conflict.kind is "none" (the function returns None), "numeric"
\* (variance_percent is a double) or "text" (variance_percent is None).
\* max() and min() raise TypeError when a number meets a value that is not
\* one.
detect_conflicts(field_name, listings) ==
  LET seen == {k \in 1..Len(listings) :
                 Get(listings[k].raw_fields, field_name) # None}
      values == [k \in 1..Cardinality(seen) |->
                   [source |-> listings[NthOf(seen, k)].source_platform,
                    value |-> listings[NthOf(seen, k)].raw_fields[field_name]]]
      nums == {values[k].value.n : k \in 1..Len(values)}
      texts == {Stringify(values[k].value) : k \in 1..Len(values)}
  IN IF Len(values) <= 1 THEN [st |-> "ok", conflict |-> NoConflict]
     ELSE IF values[1].value.k = "num"
     THEN IF \E k \in 1..Len(values) : values[k].value.k # "num"
          THEN [st |-> "TypeError", conflict |-> NoConflict]
          ELSE IF Greatest(nums) > 0
          THEN NumericConflict(field_name, values,
                               VarianceOf(Greatest(nums), Least(nums)))
          ELSE [st |-> "ok", conflict |-> NoConflict]
     ELSE IF Cardinality(texts) > 1
          THEN [st |-> "ok",
                conflict |-> [field |-> field_name, values |-> values,
                              kind |-> "text", variance_percent |-> NoDouble]]
          ELSE [st |-> "ok", conflict |-> NoConflict]

(***************************************************************************)
(* PropertyClassifier.                                                     *)
(***************************************************************************)
MIN_PRICE == 100000
MAX_PRICE == 50000000
MAX_DAYS_ON_MARKET == 365

IsDigitOrDot(ch) == IsDigit(ch) \/ ch = "."

\* the digit a character stands for
DigitOf(ch) == CHOOSE d \in 0..9 : DigitChars[d + 1] = ch

\* the k-th decimal of a fraction given by its decimals
DecimalAt(d, k) == IF k <= Len(d) THEN d[k] ELSE 0

\* 0.a > 0.b for fractions given by their decimals
FractionAbove(a, b) ==
  \E k \in 1..Max(Len(a), Len(b)) :
    /\ DecimalAt(a, k) > DecimalAt(b, k)
    /\ \A h \in 1..(k - 1) : DecimalAt(a, h) = DecimalAt(b, h)

\* the decimals of half of 0.d
Halve(d) ==
  [k \in 1..(Len(d) + 1) |->
     (DecimalAt(d, k) \div 2) + (IF k > 1 /\ d[k - 1] % 2 = 1 THEN 5 ELSE 0)]
\* the decimals of a sixteenth of 0.d: the decimal at k is the last digit
\* of the whole part of 625/10000 times the five digits that end at k
FiveDigits(d, k) ==
  10000 * (IF k > 4 THEN DecimalAt(d, k - 4) ELSE 0)
  + 1000 * (IF k > 3 THEN DecimalAt(d, k - 3) ELSE 0)
  + 100 * (IF k > 2 THEN DecimalAt(d, k - 2) ELSE 0)
  + 10 * (IF k > 1 THEN DecimalAt(d, k - 1) ELSE 0)
  + DecimalAt(d, k)
Sixteenth(d) ==
  [k \in 1..(Len(d) + 4) |-> ((625 * FiveDigits(d, k)) \div 10000) % 10]

\* the decimals of 2^-m, for m >= 1
RECURSIVE HalfPower(_)
HalfPower(m) ==
  IF m = 1 THEN <<5>>
  ELSE IF m > 4 THEN Sixteenth(HalfPower(m - 4))
  ELSE Halve(HalfPower(m - 1))

\* the least double above 0 is 2^-1074; the decimals of half of it, 2^-1075,
\* are 323 zeros and then these
HalfLeastDigits ==
  <<
    2,4,7,0,3,2,8,2,2,9,2,0,6,2,3,2,7,2,0,8,8,2,8,4,
    3,9,6,4,3,4,1,1,0,6,8,6,1,8,2,5,2,9,9,0,1,3,0,7,
    1,6,2,3,8,2,2,1,2,7,9,2,8,4,1,2,5,0,3,3,7,7,5,3,
    6,3,5,1,0,4,3,7,5,9,3,2,6,4,9,9,1,8,1,8,0,8,1,7,
    9,9,6,1,8,9,8,9,8,2,8,2,3,4,7,7,2,2,8,5,8,8,6,5,
    4,6,3,3,2,8,3,5,5,1,7,7,9,6,9,8,9,8,1,9,9,3,8,7,
    3,9,8,0,0,5,3,9,0,9,3,9,0,6,3,1,5,0,3,5,6,5,9,5,
    1,5,5,7,0,2,2,6,3,9,2,2,9,0,8,5,8,3,9,2,4,4,9,1,
    0,5,1,8,4,4,3,5,9,3,1,8,0,2,8,4,9,9,3,6,5,3,6,1,
    5,2,5,0,0,3,1,9,3,7,0,4,5,7,6,7,8,2,4,9,2,1,9,3,
    6,5,6,2,3,6,6,9,8,6,3,6,5,8,4,8,0,7,5,7,0,0,1,5,
    8,5,7,6,9,2,6,9,9,0,3,7,0,6,3,1,1,9,2,8,2,7,9,5,
    5,8,5,5,1,3,3,2,9,2,7,8,3,4,3,3,8,4,0,9,3,5,1,9,
    7,8,0,1,5,5,3,1,2,4,6,5,9,7,2,6,3,5,7,9,5,7,4,6,
    2,2,7,6,6,4,6,5,2,7,2,8,2,7,2,2,0,0,5,6,3,7,4,0,
    0,6,4,8,5,4,9,9,9,7,7,0,9,6,5,9,9,4,7,0,4,5,4,0,
    2,0,8,2,8,1,6,6,2,2,6,2,3,7,8,5,7,3,9,3,4,5,0,7,
    3,6,3,3,9,0,0,7,9,6,7,7,6,1,9,3,0,5,7,7,5,0,6,7,
    4,0,1,7,6,3,2,4,6,7,3,6,0,0,9,6,8,9,5,1,3,4,0,5,
    3,5,5,3,7,4,5,8,5,1,6,6,6,1,1,3,4,2,2,3,7,6,6,6,
    7,8,6,0,4,1,6,2,1,5,9,6,8,0,4,6,1,9,1,4,4,6,7,2,
    9,1,8,4,0,3,0,0,5,3,0,0,5,7,5,3,0,8,4,9,0,4,8,7,
    6,5,3,9,1,7,1,1,3,8,6,5,9,1,6,4,6,2,3,9,5,2,4,9,
    1,2,6,2,3,6,5,3,8,8,1,8,7,9,6,3,6,2,3,9,3,7,3,2,
    8,0,4,2,3,8,9,1,0,1,8,6,7,2,3,4,8,4,9,7,6,6,8,2,
    3,5,0,8,9,8,6,3,3,8,8,5,8,7,9,2,5,6,2,8,3,0,2,7,
    5,5,9,9,5,6,5,7,5,2,4,4,5,5,5,0,7,2,5,5,1,8,9,3,
    1,3,6,9,0,8,3,6,2,5,4,7,7,9,1,8,6,9,4,8,6,6,7,9,
    9,4,9,6,8,3,2,4,0,4,9,7,0,5,8,2,1,0,2,8,5,1,3,1,
    8,5,4,5,1,3,9,6,2,1,3,8,3,7,7,2,2,8,2,6,1,4,5,4,
    3,7,6,9,3,4,1,2,5,3,2,0,9,8,5,9,1,3,2,7,6,6,7,2,
    3,6,3,2,8,1,2,5 >>
HalfLeastDouble ==
  [k \in 1..(323 + Len(HalfLeastDigits)) |->
     IF k <= 323 THEN 0 ELSE HalfLeastDigits[k - 323]]

\* the decimals of 1 - 0.d, for d ending in a digit that is not 0
OneMinus(d) ==
  [k \in 1..Len(d) |-> IF k < Len(d) THEN 9 - d[k] ELSE 10 - d[k]]

\* the decimals of half the distance between the doubles from whole to
\* whole + 1: 2^(e-53) for 2^e <= whole < 2^(e+1), 2^-54 below 1
HalfStep(whole) == HalfPower(54 - Len(BitsOf(whole)))

\* float() gives the double nearest to whole + 0.fraction, ties to the even
\* significand: whole itself up to half a step above it, whole + 1 from half
\* a step below it.  Below 1 it gives 0 up to half the least double.
RoundsToWhole(whole, fraction) ==
  IF whole > 0 THEN ~FractionAbove(fraction, HalfStep(whole))
  ELSE ~FractionAbove(fraction, HalfLeastDouble)

RoundsToNext(whole, fraction) ==
  ~FractionAbove(OneMinus(HalfStep(whole)), fraction)

\* the double as its whole part n and whether it has a fraction
NearestDouble(whole, fraction) ==
  [st |-> "ok",
   n |-> IF RoundsToNext(whole, fraction) THEN whole + 1 ELSE whole,
   more |-> ~RoundsToWhole(whole, fraction) /\ ~RoundsToNext(whole, fraction)]

\* float(re.sub(r'[^\d.]', '', text)): ValueError unless the kept characters
\* are digits around at most one point; the whole part is below 2^31
PriceOfText(text) ==
  LET kept == SelectSeq(text, IsDigitOrDot)
      dots == {i \in 1..Len(kept) : kept[i] = "."}
      point == IF dots = {} THEN Len(kept) + 1 ELSE NthOf(dots, 1)
      whole == Slice(kept, 1, point - 1)
      fraction == Slice(kept, point + 1, Len(kept))
  IN IF Cardinality(dots) > 1 \/ Len(kept) = Cardinality(dots)
     THEN [st |-> "ValueError", n |-> 0, more |-> FALSE]
     ELSE NearestDouble(DigitsValue(whole),
                        [k \in 1..Len(fraction) |-> DigitOf(fraction[k])])

\* lines 432-437: the price as a float
PriceValue(price) ==
  IF price.k = "str" THEN PriceOfText(price.s)
  ELSE IF price.k = "num" THEN [st |-> "ok", n |-> price.n, more |-> FALSE]
  ELSE [st |-> "TypeError", n |-> 0, more |-> FALSE]

\* int(text): surrounding spaces are dropped and a sign may come before the
\* digits; the strings of the model hold no underscore between digits
IntOfText(text) ==
  LET t == Strip(text)
      signed == Len(t) > 0 /\ t[1] \in {"+", "-"}
      digits == IF signed THEN SubSeq(t, 2, Len(t)) ELSE t
  IN IF ~AllDigits(digits) THEN [st |-> "ValueError", n |-> 0]
     ELSE IF signed /\ t[1] = "-" THEN [st |-> "ok", n |-> -DigitsValue(digits)]
     ELSE [st |-> "ok", n |-> DigitsValue(digits)]

\* int(v)
ToInt(v) ==
  IF v.k = "num" THEN [st |-> "ok", n |-> v.n]
  ELSE IF v.k = "str" THEN IntOfText(v.s)
  ELSE [st |-> "TypeError", n |-> 0]

Verdict(classification, reason, category) ==
  [st |-> "ok", classification |-> classification,
   discard_reason |-> reason, discard_details |-> category]

\* a check that takes an address for missing only when the key is absent
AbsentFields(consolidated_data) == consolidated_data["address"] = Absent

\* lines 388-389: missing_fields is not empty
missing_fields(consolidated_data) ==
  ~Truthy(Get(consolidated_data, "address"))

\* lines 444 and 454: except (ValueError, TypeError)
Caught(st) == st \in {"ValueError", "TypeError"}

\* line 438
OutOfRange(value) ==
  \/ value.n < MIN_PRICE
  \/ value.n > MAX_PRICE
  \/ (value.n = MAX_PRICE /\ value.more)

\* the call ends with an exception
Raises(st) ==
  [st |-> st, classification |-> "none", discard_reason |-> "none",
   discard_details |-> "none"]

\* a days rule that gives a reason with the flag
FlaggedWithReason(days_on_market, days) ==
  IF Truthy(days_on_market) /\ days.st = "ok" /\ days.n > MAX_DAYS_ON_MARKET
  THEN Verdict("flagged", "stale_listing", "none")
  ELSE Verdict("usable", "none", "none")

\* lines 447-458 given days_on_market and the outcome of int(days_on_market)
DaysRule(days_on_market, days) ==
  IF ~Truthy(days_on_market) THEN Verdict("usable", "none", "none")
  ELSE IF days.st # "ok"
  THEN IF Caught(days.st) THEN Verdict("usable", "none", "none")
       ELSE Raises(days.st)
  ELSE IF days.n > MAX_DAYS_ON_MARKET THEN Verdict("flagged", "none", "none")
  ELSE Verdict("usable", "none", "none")

\* lines 427-458 given the price and the outcome of float(price)
PriceRule(consolidated_data, price, value) ==
  IF Truthy(price) /\ value.st # "ok" /\ ~Caught(value.st)
  THEN Raises(value.st)
  ELSE IF Truthy(price) /\ value.st = "ok" /\ OutOfRange(value)
  THEN Verdict("discarded", "outside_investment_mandate", "price_out_of_range")
  ELSE DaysRule(Or(Get(consolidated_data, "daysOnZillow"),
                   Get(consolidated_data, "days_on_market")),
                ToInt(Or(Get(consolidated_data, "daysOnZillow"),
                         Get(consolidated_data, "days_on_market"))))

\* lines 400-401 and 415-425: the type is upper-cased and mapped, and
\* rejects nothing because the check against ALLOWED_PROPERTY_TYPES is
\* commented out; a truthy type that is not a str has no upper()
TypeRule(prop_type) ==
  IF Truthy(prop_type) /\ prop_type.k # "str" THEN "AttributeError" ELSE "ok"

\* PropertyClassifier.classify_property.  discard_reason and discard_details
\* are "none" for None; discard_details is represented by its
\* reason_category.
classify_property(consolidated_data) ==
  IF missing_fields(consolidated_data)
  THEN Verdict("discarded", "missing_critical_fields", "incomplete_data")
  ELSE IF TypeRule(Or(Get(consolidated_data, "homeType"),
                      GetOr(consolidated_data, "property_type", EmptyStr)))
          # "ok"
  THEN Raises("AttributeError")
  ELSE PriceRule(consolidated_data,
                 Or(Get(consolidated_data, "unformattedPrice"),
                    Get(consolidated_data, "price")),
                 PriceValue(Or(Get(consolidated_data, "unformattedPrice"),
                               Get(consolidated_data, "price"))))

(***************************************************************************)
(* CentralProcessingNode._consolidate_group.                               *)
(***************************************************************************)
common_fields ==
  <<"address", "address_full", "address_street", "address_city",
    "address_state", "address_zip", "price", "unformattedPrice", "beds",
    "baths", "area", "latitude", "longitude", "homeType", "homeStatus",
    "daysOnZillow">>

\* lines 581-585: the best value of every common field that has one
PickedFields(group_listings) ==
  [f \in Fields |->
     IF f \in Range(common_fields)
     THEN LET value == get_field_precedence(f, group_listings)
          IN IF value = None THEN Absent ELSE value
     ELSE Absent]

address_parts ==
  <<"address_street", "address_city", "address_state", "address_zip">>

\* lines 592-602: the standard address field
WithStandardAddress(data) ==
  LET has(f) == data[f] # Absent
      kept == SelectSeq(address_parts, LAMBDA f : has(f) /\ Truthy(data[f]))
      parts == [k \in 1..Len(kept) |-> Stringify(data[kept[k]])]
  IN IF has("address_full") /\ ~has("address")
     THEN [data EXCEPT !["address"] = data["address_full"]]
     ELSE IF ~has("address") /\ has("address_street") /\ Len(parts) > 0
     THEN [data EXCEPT !["address"] = Str(JoinComma(parts))]
     ELSE data

\* datetime.isoformat() of the timestamps of the model, which are days of
\* January 2024 at midnight
IsoFormat(day) ==
  <<"2","0","2","4","-","0","1","-">>
  \o <<DigitChars[(day \div 10) + 1], DigitChars[(day % 10) + 1]>>
  \o <<"T","0","0",":","0","0",":","0","0">>

\* lines 610-617: the summary of one source listing
SourceSummary(l) ==
  [platform |-> l.source_platform,
   listing_id |-> l.listing_id,
   extracted |-> IsoFormat(l.extraction_timestamp)]

\* f"{n:06d}"
ZeroPadded6(n) ==
  LET text == DecimalText(n)
  IN [k \in 1..Max(6 - Len(text), 0) |-> "0"] \o text

\* identifiers counted from one
PropertyIdFromOne(group_id) ==
  <<"P","R","O","P","-">> \o ZeroPadded6(group_id + 1)

\* line 620
PropertyId(group_id) == <<"P","R","O","P","-">> \o ZeroPadded6(group_id)

NoProperty ==
  [property_id |-> <<>>, consolidated_data |-> NoFields,
   source_listings |-> <<>>, conflicts |-> <<>>, classification |-> "none",
   discard_reason |-> "none", discard_details |-> "none"]

\* CentralProcessingNode._consolidate_group: [st, property]; last_updated,
\* the time of the call, is left out.  The first exception of a conflict
\* check or of the classifier ends the call.
_consolidate_group(group_id, group_listings) ==
  LET checks == [k \in 1..Len(common_fields) |->
                   detect_conflicts(common_fields[k], group_listings)]
      failed == {k \in 1..Len(checks) : checks[k].st # "ok"}
      found == SelectSeq(checks, LAMBDA c : c.conflict.kind # "none")
      consolidated_data == WithStandardAddress(PickedFields(group_listings))
      verdict == classify_property(consolidated_data)
  IN IF failed # {}
     THEN [st |-> checks[NthOf(failed, 1)].st, property |-> NoProperty]
     ELSE IF verdict.st # "ok"
     THEN [st |-> verdict.st, property |-> NoProperty]
     ELSE [st |-> "ok",
           property |->
             [property_id |-> PropertyId(group_id),
              consolidated_data |-> consolidated_data,
              source_listings |->
                [k \in 1..Len(group_listings) |->
                   SourceSummary(group_listings[k])],
              conflicts |-> [k \in 1..Len(found) |-> found[k].conflict],
              classification |-> verdict.classification,
              discard_reason |-> verdict.discard_reason,
              discard_details |-> verdict.discard_details]]

(***************************************************************************)
(* Inputs of the normalizer: an address is a sequence of pieces (words     *)
(* and separators), either one of the examples of the test-suite and the   *)
(* documentation or up to MaxPieces words joined by separators.            *)
(***************************************************************************)
Words ==
  { <<"1","2","3">>, <<"0","5">>, <<"M","a","i","n">>, <<"S","t">>,
    <<"N">>, <<"P","l">>, <<"U","n","i","t","0","5">>, <<"O","a","k">>,
    <<"A","p","t"," ","5">> }

Separators == { <<" ">>, <<","," ">>, <<" ",","," ">> }

\* "123 Main St"
Ex_123_Main_St ==
  << <<"1","2","3">>, <<" ">>, <<"M","a","i","n">>, <<" ">>, <<"S","t">> >>
\* "123 MAIN STREET"
Ex_123_MAIN_STREET ==
  << <<"1","2","3">>, <<" ">>, <<"M","A","I","N">>, <<" ">>,
     <<"S","T","R","E","E","T">> >>
\* "456 N Oak Ave"
Ex_456_N_Oak_Ave ==
  << <<"4","5","6">>, <<" ">>, <<"N">>, <<" ">>, <<"O","a","k">>, <<" ">>,
     <<"A","v","e">> >>
\* "0100 Park Pl"
Ex_0100_Park_Pl ==
  << <<"0","1","0","0">>, <<" ">>, <<"P","a","r","k">>, <<" ">>, <<"P","l">> >>
\* "789 SW 1st Blvd, Apt 5"
Ex_789_SW_1st_Blvd_Apt_5 ==
  << <<"7","8","9">>, <<" ">>, <<"S","W">>, <<" ">>, <<"1","s","t">>, <<" ">>,
     <<"B","l","v","d">>, <<","," ">>, <<"A","p","t"," ","5">> >>
\* "1 Main St #5"
Ex_1_Main_St_Hash_5 ==
  << <<"1">>, <<" ">>, <<"M","a","i","n">>, <<" ">>, <<"S","t">>, <<" ">>,
     <<"#","5">> >>

ExampleAddresses ==
  {Ex_123_Main_St, Ex_123_MAIN_STREET, Ex_456_N_Oak_Ave, Ex_0100_Park_Pl,
   Ex_789_SW_1st_Blvd_Apt_5, Ex_1_Main_St_Hash_5}

\* words w1..wn joined by separators: <<w1, sep1, w2, ..., wn>>
RECURSIVE GeneratedAddresses(_)
GeneratedAddresses(n) ==
  IF n = 0 THEN {}
  ELSE IF n = 1 THEN {<<w>> : w \in Words}
  ELSE GeneratedAddresses(n - 1)
         \cup {ps \o <<sep, w>> : ps \in GeneratedAddresses(n - 1),
                                   sep \in Separators, w \in Words}

PieceSeqs == ExampleAddresses \cup GeneratedAddresses(MaxPieces)

Text(pieces) == Join(pieces, 1, Len(pieces))

\* the unit markers as they are written before a designator
UnitSpellings ==
  << <<"A","p","t"," ">>, <<"S","u","i","t","e"," ">>, <<"S","t","e"," ">>,
     <<"U","n","i","t"," ">>, <<"#">> >>

\* the full word of an abbreviation of the two tables, <<>> for other words
FullWord(w) ==
  LET table == STREET_SUFFIXES \o DIRECTIONALS
      hits == {k \in 1..Len(table) : table[k][1] = Upper(w)}
  IN IF hits = {} THEN <<>> ELSE table[CHOOSE k \in hits : TRUE][2]

\* other ways of writing the piece: kind "expand" spells an abbreviation in
\* full, "zeros" adds a leading zero to a number, "unit" changes the unit
\* marker, "case" upper-cases the piece
Respellings(w) ==
  (IF FullWord(w) # <<>>
   THEN {[kind |-> "expand", piece |-> FullWord(w)]} ELSE {})
  \cup (IF AllDigits(w)
        THEN {[kind |-> "zeros", piece |-> <<"0">> \o w]} ELSE {})
  \cup {[kind |-> "unit",
         piece |-> UnitSpellings[m] \o Slice(w, Len(UnitSpellings[k]) + 1, Len(w))] :
          k \in {h \in 1..Len(UnitSpellings) : StartsAt(w, 1, UnitSpellings[h])},
          m \in 1..Len(UnitSpellings)}
  \cup {[kind |-> "case", piece |-> Upper(w)]}

\* the addresses that differ from pieces in the spelling of one piece
Variants(pieces) ==
  UNION {{[kind |-> r.kind, pieces |-> [pieces EXCEPT ![k] = r.piece]] :
            r \in Respellings(pieces[k])} : k \in 1..Len(pieces)}

(***************************************************************************)
(* Inputs of the matcher.                                                  *)
(***************************************************************************)
\* "123 Main Street, Seattle, WA 98101"
T_123_Main_Street_Seattle ==
  <<"1","2","3"," ","M","a","i","n"," ","S","t","r","e","e","t",","," ","S",
    "e","a","t","t","l","e",","," ","W","A"," ","9","8","1","0","1">>
\* "123 Main St, Seattle, WA 98101"
T_123_Main_St_Seattle ==
  <<"1","2","3"," ","M","a","i","n"," ","S","t",","," ","S","e","a","t","t",
    "l","e",","," ","W","A"," ","9","8","1","0","1">>
\* "9 Oak Avenue, Tacoma, WA 98402"
T_9_Oak_Avenue_Tacoma ==
  <<"9"," ","O","a","k"," ","A","v","e","n","u","e",","," ","T","a","c","o",
    "m","a",","," ","W","A"," ","9","8","4","0","2">>
\* "9 Oak Ave, Tacoma, WA 98402"
T_9_Oak_Ave_Tacoma ==
  <<"9"," ","O","a","k"," ","A","v","e",","," ","T","a","c","o","m","a",",",
    " ","W","A"," ","9","8","4","0","2">>
\* "123 Main St"
T_123_Main_St ==
  <<"1","2","3"," ","M","a","i","n"," ","S","t">>
\* "Seattle"
T_Seattle ==
  <<"S","e","a","t","t","l","e">>
\* "SEATTLE"
T_SEATTLE ==
  <<"S","E","A","T","T","L","E">>
\* "Tacoma"
T_Tacoma ==
  <<"T","a","c","o","m","a">>
\* "WA"
T_WA ==
  <<"W","A">>
\* "wa"
T_wa ==
  <<"w","a">>
\* "OR"
T_OR ==
  <<"O","R">>
\* "98101"
T_98101 ==
  <<"9","8","1","0","1">>
\* "98402"
T_98402 ==
  <<"9","8","4","0","2">>
\* "OFFICE"
T_OFFICE ==
  <<"O","F","F","I","C","E">>
\* "office"
T_office ==
  <<"o","f","f","i","c","e">>
\* "RETAIL"
T_RETAIL ==
  <<"R","E","T","A","I","L">>
\* "2000"
T_2000 ==
  <<"2","0","0","0">>
\* "abc"
T_abc ==
  <<"a","b","c">>
\* "$1,000,000"
T_1000000_formatted ==
  <<"$","1",",","0","0","0",",","0","0","0">>

\* lists and dicts met in place of a scalar: the address as
\* ZillowAddress.model_dump() gives it, and one-item lists
T_street == <<"s","t","r","e","e","t">>
T_city == <<"c","i","t","y">>
T_state == <<"s","t","a","t","e">>
T_zipcode == <<"z","i","p","c","o","d","e">>
AddressDict ==
  Dict(<<<<Str(T_street), Str(T_123_Main_St)>>, <<Str(T_city), Str(T_Seattle)>>,
         <<Str(T_state), Str(T_WA)>>, <<Str(T_zipcode), Str(T_98101)>>>>)
ListOf(item) == List(<<item>>)
ZipDict == Dict(<<<<Str(T_zipcode), Num(98101)>>>>)

\* the listings of test_property_matching
TestListing1 ==
  [NoFields EXCEPT !["address"] = Str(T_123_Main_Street_Seattle),
                   !["price"] = Num(1000000),
                   !["area"] = Num(2000)]
TestListing2 ==
  [NoFields EXCEPT !["address"] = Str(T_123_Main_St_Seattle),
                   !["price"] = Num(1050000),
                   !["area"] = Num(2050)]

\* a listing with every matching field populated
FullListing ==
  [NoFields EXCEPT !["address"] = Str(T_123_Main_St_Seattle),
                   !["address_city"] = Str(T_Seattle),
                   !["address_state"] = Str(T_WA),
                   !["address_zip"] = Str(T_98101),
                   !["homeType"] = Str(T_OFFICE),
                   !["area"] = Num(2000),
                   !["price"] = Num(1000000)]

\* the same listing with its ZIP code in a list
ListZipListing == [FullListing EXCEPT !["address_zip"] = ListOf(Num(98101))]

\* raw_fields as ZillowAgent.convert_to_raw_listing_record builds them for a
\* listing with an address: model_dump() keeps the nested address, the
\* formatted price string and the numeric unformattedPrice
ZillowListing ==
  [NoFields EXCEPT !["address"] = AddressDict,
                   !["address_full"] = Str(T_123_Main_St_Seattle),
                   !["address_street"] = Str(T_123_Main_St),
                   !["address_city"] = Str(T_Seattle),
                   !["address_state"] = Str(T_WA),
                   !["address_zip"] = Str(T_98101),
                   !["homeType"] = Str(T_OFFICE),
                   !["area"] = Num(2000),
                   !["price"] = Str(T_1000000_formatted),
                   !["unformattedPrice"] = Num(1000000),
                   !["daysOnZillow"] = Num(12)]

\* the same for a listing without an address: model_dump() gives
\* 'address': None and no address_* key is added
ZillowListingNoAddress ==
  [NoFields EXCEPT !["address"] = None,
                   !["homeType"] = Str(T_OFFICE),
                   !["area"] = Num(2000),
                   !["price"] = Str(T_1000000_formatted),
                   !["unformattedPrice"] = Num(1000000),
                   !["daysOnZillow"] = None]

\* two listings of one property that differ in the spelling of the suffix
OakListing1 ==
  [NoFields EXCEPT !["address"] = Str(T_9_Oak_Ave_Tacoma),
                   !["price"] = Num(1300000),
                   !["area"] = Num(2400)]
OakListing2 ==
  [NoFields EXCEPT !["address"] = Str(T_9_Oak_Avenue_Tacoma),
                   !["price"] = Num(1300000),
                   !["area"] = Num(2400)]

\* a listing whose numbers are not numbers
MalformedListing ==
  [NoFields EXCEPT !["address"] = Str(T_123_Main_St),
                   !["area"] = Str(T_abc),
                   !["price"] = Str(T_1000000_formatted)]

BasePairs ==
  { <<TestListing1, TestListing2>>, <<FullListing, FullListing>>,
    <<ZillowListing, FullListing>>, <<FullListing, ZillowListingNoAddress>>,
    <<FullListing, MalformedListing>>, <<TestListing1, NoFields>>,
    <<MalformedListing, MalformedListing>>, <<OakListing1, OakListing2>>,
    <<ListZipListing, ListZipListing>> }

\* changes of one key of a mapping
Edits ==
  {[f |-> "address", v |-> v] :
     v \in {Absent, None, EmptyStr, AddressDict,
            Str(T_123_Main_St_Seattle),
            Str(T_123_Main_Street_Seattle), Str(T_9_Oak_Ave_Tacoma),
            Str(T_9_Oak_Avenue_Tacoma), Str(T_123_Main_St)}}
  \cup {[f |-> "address_full", v |-> v] :
          v \in {None, Str(T_123_Main_St_Seattle)}}
  \cup {[f |-> "address_city", v |-> v] :
          v \in {Absent, None, Str(T_SEATTLE), Str(T_Tacoma)}}
  \cup {[f |-> "address_state", v |-> v] :
          v \in {Absent, None, Str(T_wa), Str(T_OR)}}
  \cup {[f |-> "address_zip", v |-> v] :
          v \in {Absent, None, Str(T_98402), ListOf(Num(98101)),
                 ListOf(Num(98402)), ZipDict}}
  \cup {[f |-> "homeType", v |-> v] :
          v \in {Absent, None, Str(T_office), Str(T_RETAIL)}}
  \cup {[f |-> "property_type", v |-> v] : v \in {Str(T_OFFICE)}}
  \cup {[f |-> "area", v |-> v] :
          v \in {Absent, None, Num(0), Num(2050), Num(2150), Num(2250),
                 Num(2400), Str(T_2000), Str(T_abc), ListOf(Num(2000))}}
  \cup {[f |-> "sqft", v |-> v] : v \in {Num(2000)}}
  \cup {[f |-> "price", v |-> v] :
          v \in {Absent, None, Num(1050000), Num(1150000), Num(1300000),
                 Str(T_1000000_formatted), Str(T_abc),
                 ListOf(Num(1000000))}}
  \cup {[f |-> "unformattedPrice", v |-> v] : v \in {None, Num(1000000)}}

\* the mappings obtained from listing by at most n edits
RECURSIVE EditedBy(_, _)
EditedBy(listing, n) ==
  IF n = 0 THEN {listing}
  ELSE LET fewer == EditedBy(listing, n - 1)
       IN fewer \cup {[m EXCEPT ![e.f] = e.v] : m \in fewer, e \in Edits}

(***************************************************************************)
(* Inputs of process_listings.                                             *)
(***************************************************************************)
T_zillow == <<"z","i","l","l","o","w">>
T_loopnet == <<"l","o","o","p","n","e","t">>
T_crexi == <<"c","r","e","x","i">>

RawListingRecord(platform, day, id, fields) ==
  [source_platform |-> platform, extraction_timestamp |-> day,
   listing_id_native |-> id, raw_fields |-> fields,
   metadata |-> [listing_index |-> day]]

\* three listings of one address: the first says nothing of the size, the
\* third is of another type at another price
ListingA ==
  RawListingRecord(T_zillow, 1, <<"z","1">>,
    [FullListing EXCEPT !["area"] = Absent])
ListingB ==
  RawListingRecord(T_loopnet, 2, <<"l","1">>, FullListing)
ListingC ==
  RawListingRecord(T_crexi, 2, <<"c","1">>,
    [FullListing EXCEPT !["homeType"] = Str(T_RETAIL),
                        !["price"] = Num(2000000)])
\* a listing of another property
ListingD ==
  RawListingRecord(T_loopnet, 3, <<"l","2">>, OakListing1)
\* what ZillowAgent sends for a listing without an address
ListingE ==
  RawListingRecord(T_zillow, 3, <<"z","2">>, ZillowListingNoAddress)
\* what ZillowAgent sends for a listing with an address
ListingF ==
  RawListingRecord(T_zillow, 4, <<"z","3">>,
    [ZillowListing EXCEPT !["daysOnZillow"] = Num(400)])

\* a later listing of the property of ListingD at a price above the band
ListingG ==
  RawListingRecord(T_crexi, 5, <<"c","2">>,
    [OakListing1 EXCEPT !["price"] = Num(60000000)])

ListingPool ==
  {ListingA, ListingB, ListingC, ListingD, ListingE, ListingF, ListingG}

RECURSIVE ListingSeqs(_)
ListingSeqs(n) ==
  IF n = 0 THEN {<<>>}
  ELSE LET shorter == ListingSeqs(n - 1)
       IN shorter \cup {Append(s, l) : s \in shorter, l \in ListingPool}

(***************************************************************************)
(* State.                                                                  *)
(***************************************************************************)
VARIABLES
  address,      \* normalizer run: the argument of normalize_address
  variant,      \* normalizer run: [kind, text], another spelling of address
  results,      \* normalizer run: the values returned so far
  listing1,     \* matcher run: first argument of is_match
  listing2,     \* matcher run: second argument of is_match
  outcomes,     \* matcher run: the outcomes of the calls made so far
  raw_listings, \* per invocation of process_listings: its argument
  pc,           \* per invocation: where it is
  i,            \* per invocation: index of the outer loop of _group_listings
  j,            \* per invocation: index of the inner loop of _group_listings
  group,        \* per invocation: indexes of the listings of the open group
  groups,       \* per invocation: the groups closed so far
  processed,    \* per invocation: the indexes assigned to a group
  group_id,     \* per invocation: index of the loop of process_listings
  consolidated_properties,  \* per invocation: the list it builds
  raised,       \* per invocation: the exception that ended it, or "none"
  field_name,   \* consolidator run: the field asked for
  listings,     \* consolidator run: the listing dicts of one group
  answers,      \* consolidator run: what the calls made so far returned
  consolidated_data,  \* classifier run: the argument of classify_property
  verdicts      \* classifier run: what the calls made so far returned

normalizerVars == <<address, variant, results>>
matcherVars == <<listing1, listing2, outcomes>>
processVars ==
  <<raw_listings, pc, i, j, group, groups, processed, group_id,
    consolidated_properties, raised>>
consolidatorVars == <<field_name, listings, answers>>
classifierVars == <<consolidated_data, verdicts>>
vars ==
  <<normalizerVars, matcherVars, processVars, consolidatorVars,
    classifierVars>>

\* values of the variables of a run that is not the one specified
NoNormalizerRun ==
  /\ address = <<>>
  /\ variant = [kind |-> "none", text |-> <<>>]
  /\ results = <<>>
NoMatcherRun ==
  /\ listing1 = NoFields
  /\ listing2 = NoFields
  /\ outcomes = <<>>
NoProcessRun ==
  /\ raw_listings = <<>>
  /\ pc = <<>>
  /\ i = <<>>
  /\ j = <<>>
  /\ group = <<>>
  /\ groups = <<>>
  /\ processed = <<>>
  /\ group_id = <<>>
  /\ consolidated_properties = <<>>
  /\ raised = <<>>
NoConsolidatorRun ==
  /\ field_name = ""
  /\ listings = <<>>
  /\ answers = <<>>
NoClassifierRun ==
  /\ consolidated_data = NoFields
  /\ verdicts = <<>>

(***************************************************************************)
(* Runs of AddressNormalizer.normalize_address: on an address, on its own  *)
(* result, and on another spelling of the address.                         *)
(***************************************************************************)
InitNormalize ==
  \E pieces \in PieceSeqs : \E v \in Variants(pieces) :
    /\ address = Text(pieces)
    /\ variant = [kind |-> v.kind, text |-> Text(v.pieces)]
    /\ results = <<>>
    /\ NoMatcherRun
    /\ NoProcessRun
    /\ NoConsolidatorRun
    /\ NoClassifierRun

\* result = AddressNormalizer.normalize_address(address)
Normalize ==
  /\ Len(results) = 0
  /\ results' = <<normalize_address(address)>>
  /\ UNCHANGED <<address, variant, matcherVars, processVars,
                 consolidatorVars, classifierVars>>

\* AddressNormalizer.normalize_address(result)
NormalizeAgain ==
  /\ Len(results) = 1
  /\ results' = Append(results, normalize_address(results[1]))
  /\ UNCHANGED <<address, variant, matcherVars, processVars,
                 consolidatorVars, classifierVars>>

\* AddressNormalizer.normalize_address(variant)
NormalizeVariant ==
  /\ Len(results) = 2
  /\ results' = Append(results, normalize_address(variant.text))
  /\ UNCHANGED <<address, variant, matcherVars, processVars,
                 consolidatorVars, classifierVars>>

NextNormalize == Normalize \/ NormalizeAgain \/ NormalizeVariant

SpecNormalize == InitNormalize /\ [][NextNormalize]_vars

(***************************************************************************)
(* Runs of PropertyMatcher.is_match: on two listings, and on the same two  *)
(* listings in the other order.                                            *)
(***************************************************************************)
InitMatch ==
  \E pair \in BasePairs : \E edited \in EditedBy(pair[2], MaxEdits) :
    /\ listing1 \in {pair[1], edited}
    /\ listing2 = edited
    /\ outcomes = <<>>
    /\ NoNormalizerRun
    /\ NoProcessRun
    /\ NoConsolidatorRun
    /\ NoClassifierRun

\* PropertyMatcher.is_match(listing1, listing2)
Match ==
  /\ Len(outcomes) = 0
  /\ outcomes' = <<is_match(listing1, listing2)>>
  /\ UNCHANGED <<listing1, listing2, normalizerVars, processVars,
                 consolidatorVars, classifierVars>>

\* PropertyMatcher.is_match(listing2, listing1)
MatchSwapped ==
  /\ Len(outcomes) = 1
  /\ outcomes' = Append(outcomes, is_match(listing2, listing1))
  /\ UNCHANGED <<listing1, listing2, normalizerVars, processVars,
                 consolidatorVars, classifierVars>>

NextMatch == Match \/ MatchSwapped

SpecMatch == InitMatch /\ [][NextMatch]_vars

(***************************************************************************)
(* Invocations of CentralProcessingNode.process_listings.  Indexes are     *)
(* those of the code, from 0; the groups hold indexes of listings_dict in  *)
(* place of the dicts themselves.                                          *)
(***************************************************************************)
\* lines 492-501: the dict built from record k (from 0) of the argument
ListingDict(p, k) ==
  LET l == raw_listings[p][k + 1]
  IN [source_platform |-> l.source_platform,
      extraction_timestamp |-> l.extraction_timestamp,
      listing_id |-> l.listing_id_native,
      raw_fields |-> l.raw_fields,
      metadata |-> l.metadata]

\* the dicts of a group
GroupListings(p, members) ==
  [k \in 1..Len(members) |-> ListingDict(p, members[k])]

InitProcess ==
  \E input \in ListingSeqs(MaxListings) :
    /\ raw_listings = <<input>>
    /\ pc = <<"start">>
    /\ i = <<0>>
    /\ j = <<0>>
    /\ group = << <<>> >>
    /\ groups = << <<>> >>
    /\ processed = << {} >>
    /\ group_id = <<0>>
    /\ consolidated_properties = << <<>> >>
    /\ raised = <<"none">>
    /\ NoNormalizerRun
    /\ NoMatcherRun
    /\ NoConsolidatorRun
    /\ NoClassifierRun

\* a set of assigned indexes that the invocations of a node share
AssignedByAny(p) == UNION {processed[q] : q \in DOMAIN pc}

\* line 528: the set 'processed' that invocation p reads is the local
\* variable of its own call of _group_listings
Assigned(p) == processed[p]

\* lines 491-504 and 527-528: process_listings is entered, listings_dict is
\* built and _group_listings starts with no group
Enter(p) ==
  /\ pc[p] = "start"
  /\ pc' = [pc EXCEPT ![p] = "outer"]
  /\ i' = [i EXCEPT ![p] = 0]
  /\ groups' = [groups EXCEPT ![p] = <<>>]
  /\ processed' = [processed EXCEPT ![p] = {}]
  /\ UNCHANGED <<raw_listings, j, group, group_id, consolidated_properties,
                 raised, normalizerVars, matcherVars,
                 consolidatorVars, classifierVars>>

\* an inner loop that passes over the listing next to the leader
InnerStartAfterNext(leader) == leader + 2

\* line 539: the inner loop starts at the listing after the leader
InnerStart(leader) == leader + 1

\* lines 530-536 and 554: one turn of the outer loop.  A listing already
\* assigned is passed over; another one opens a group as its leader; after
\* the last listing the groups are returned and the loop of line 508 starts.
OuterStep(p) ==
  /\ pc[p] = "outer"
  /\ IF i[p] >= Len(raw_listings[p])
     THEN /\ pc' = [pc EXCEPT ![p] = "consolidate"]
          /\ group_id' = [group_id EXCEPT ![p] = 0]
          /\ consolidated_properties' =
               [consolidated_properties EXCEPT ![p] = <<>>]
          /\ UNCHANGED <<i, j, group, processed>>
     ELSE IF i[p] \in Assigned(p)
     THEN /\ i' = [i EXCEPT ![p] = i[p] + 1]
          /\ UNCHANGED <<pc, j, group, processed, group_id,
                         consolidated_properties>>
     ELSE /\ group' = [group EXCEPT ![p] = <<i[p]>>]
          /\ processed' = [processed EXCEPT ![p] = processed[p] \cup {i[p]}]
          /\ j' = [j EXCEPT ![p] = InnerStart(i[p])]
          /\ pc' = [pc EXCEPT ![p] = "inner"]
          /\ UNCHANGED <<i, group_id, consolidated_properties>>
  /\ UNCHANGED <<raw_listings, groups, raised, normalizerVars, matcherVars,
                 consolidatorVars, classifierVars>>

\* a grouping that compares listing jj with every member of the open group
AnyMemberMatch(p, members, ii, jj) ==
  LET outcome(k) ==
        is_match(ListingDict(p, members[k]).raw_fields,
                 ListingDict(p, jj).raw_fields)
      hits == {k \in 1..Len(members) : outcome(k).match}
  IN IF hits = {} THEN outcome(1) ELSE outcome(NthOf(hits, 1))

\* lines 543-546: the comparison of listing jj with listing1, the listing
\* of the outer loop, which leads the open group
LeaderMatch(p, members, ii, jj) ==
  is_match(ListingDict(p, ii).raw_fields, ListingDict(p, jj).raw_fields)

\* a grouping that does not mark the members it adds
MarkNothing(assigned, jj) == assigned

\* line 550
MarkProcessed(assigned, jj) == assigned \cup {jj}

\* lines 548-550 after is_match has returned or raised: an exception ends
\* the invocation, a match adds listing j to the open group
Compared(p, outcome) ==
  IF outcome.st # "ok"
  THEN /\ raised' = [raised EXCEPT ![p] = outcome.st]
       /\ pc' = [pc EXCEPT ![p] = "raised"]
       /\ UNCHANGED <<i, j, group, groups, processed>>
  ELSE /\ IF outcome.match
          THEN /\ group' = [group EXCEPT ![p] = Append(group[p], j[p])]
               /\ processed' =
                    [processed EXCEPT ![p] = MarkProcessed(processed[p], j[p])]
          ELSE UNCHANGED <<group, processed>>
       /\ j' = [j EXCEPT ![p] = j[p] + 1]
       /\ UNCHANGED <<pc, i, groups, raised>>

\* lines 539-552: one turn of the inner loop.  A listing already assigned
\* is passed over; another one is compared with the leader and joins the
\* group when it matches; an exception of is_match ends the invocation;
\* after the last listing the group is closed.
InnerStep(p) ==
  /\ pc[p] = "inner"
  /\ IF j[p] >= Len(raw_listings[p])
     THEN /\ groups' = [groups EXCEPT ![p] = Append(groups[p], group[p])]
          /\ i' = [i EXCEPT ![p] = i[p] + 1]
          /\ pc' = [pc EXCEPT ![p] = "outer"]
          /\ UNCHANGED <<j, group, processed, raised>>
     ELSE IF j[p] \in Assigned(p)
     THEN /\ j' = [j EXCEPT ![p] = j[p] + 1]
          /\ UNCHANGED <<pc, i, group, groups, processed, raised>>
     ELSE Compared(p, LeaderMatch(p, group[p], i[p], j[p]))
  /\ UNCHANGED <<raw_listings, group_id, consolidated_properties,
                 normalizerVars, matcherVars,
                 consolidatorVars, classifierVars>>

\* a consolidation that collects the picked values in the raw_fields of
\* the leader of the group
LeaderOverwritten(input, members, consolidated) ==
  [input EXCEPT ![members[1] + 1].raw_fields =
                   consolidated.property.consolidated_data]

\* lines 578-602: what _consolidate_group leaves of the argument of
\* process_listings.  consolidated_data is a new dict (line 578) and the
\* only one written (lines 585, 594, 602); the raw_fields of the listings
\* are read with get() and 'in'.
InputAfter(input, members, consolidated) == input

\* lines 509-510 after _consolidate_group has returned or raised
Consolidated(p, consolidated) ==
  IF consolidated.st # "ok"
  THEN /\ raised' = [raised EXCEPT ![p] = consolidated.st]
       /\ pc' = [pc EXCEPT ![p] = "raised"]
       /\ UNCHANGED <<raw_listings, group_id, consolidated_properties>>
  ELSE /\ raw_listings' =
            [raw_listings EXCEPT
               ![p] = InputAfter(raw_listings[p], groups[p][group_id[p] + 1],
                                 consolidated)]
       /\ consolidated_properties' =
            [consolidated_properties EXCEPT
               ![p] = Append(consolidated_properties[p],
                             consolidated.property)]
       /\ group_id' = [group_id EXCEPT ![p] = group_id[p] + 1]
       /\ UNCHANGED <<pc, raised>>

\* lines 508-512: one turn of the loop of process_listings, a whole call of
\* _consolidate_group; after the last group the list is returned
ConsolidateStep(p) ==
  /\ pc[p] = "consolidate"
  /\ IF group_id[p] >= Len(groups[p])
     THEN /\ pc' = [pc EXCEPT ![p] = "done"]
          /\ UNCHANGED <<raw_listings, group_id, consolidated_properties,
                         raised>>
     ELSE Consolidated(p,
            _consolidate_group(
              group_id[p], GroupListings(p, groups[p][group_id[p] + 1])))
  /\ UNCHANGED <<i, j, group, groups, processed,
                 normalizerVars, matcherVars,
                 consolidatorVars, classifierVars>>

Next ==
  \/ \E p \in DOMAIN pc : Enter(p)
  \/ \E p \in DOMAIN pc : OuterStep(p)
  \/ \E p \in DOMAIN pc : InnerStep(p)
  \/ \E p \in DOMAIN pc : ConsolidateStep(p)

Spec == InitProcess /\ [][Next]_vars

(***************************************************************************)
(* Two invocations of process_listings on one CentralProcessingNode, each  *)
(* on its own argument, their steps interleaved in every way.  The two     *)
(* invocations are alike, so the one with the longer argument is numbered  *)
(* first.                                                                  *)
(***************************************************************************)
SharedPool == {ListingA, ListingB, ListingC}

RECURSIVE SharedSeqs(_)
SharedSeqs(n) ==
  IF n = 0 THEN {<<>>}
  ELSE LET shorter == SharedSeqs(n - 1)
       IN shorter \cup {Append(s, l) : s \in shorter, l \in SharedPool}

InitShared ==
  \E input1 \in SharedSeqs(MaxShared), input2 \in SharedSeqs(MaxShared) :
    /\ Len(input1) + Len(input2) <= MaxShared
    /\ Len(input1) >= Len(input2)
    /\ raw_listings = <<input1, input2>>
    /\ pc = <<"start", "start">>
    /\ i = <<0, 0>>
    /\ j = <<0, 0>>
    /\ group = << <<>>, <<>> >>
    /\ groups = << <<>>, <<>> >>
    /\ processed = << {}, {} >>
    /\ group_id = <<0, 0>>
    /\ consolidated_properties = << <<>>, <<>> >>
    /\ raised = <<"none", "none">>
    /\ NoNormalizerRun
    /\ NoMatcherRun
    /\ NoConsolidatorRun
    /\ NoClassifierRun

SpecShared == InitShared /\ [][Next]_vars

(***************************************************************************)
(* Invocations of process_listings on listings that differ in which of     *)
(* their fields are absent, null or empty: three listings of one property  *)
(* that disagree on the number of beds, the newest with a null, and        *)
(* listings whose address is given in parts only.                          *)
(***************************************************************************)
\* a listing of the property of FullListing with beds
BedsListing(platform, day, id, beds) ==
  RawListingRecord(platform, day, id, [FullListing EXCEPT !["beds"] = beds])

\* a listing that has of its address only what parts gives
PartsListing(day, id, parts) ==
  RawListingRecord(T_loopnet, day, id,
    [f \in Fields |->
       IF f \in DOMAIN parts THEN parts[f]
       ELSE IF f = "price" THEN Num(1000000)
       ELSE Absent])

\* two listings of one day that say 3 and 4 beds, and a newer one, as
\* ZillowAgent sends it, that carries the key with a null
BedsThree == BedsListing(T_loopnet, 1, <<"l","1">>, Num(3))
BedsFour == BedsListing(T_crexi, 1, <<"c","1">>, Num(4))
BedsNull == BedsListing(T_zillow, 2, <<"z","1">>, None)
\* the full address only
FullOnly ==
  PartsListing(3, <<"l","2">>, [address_full |-> Str(T_123_Main_St_Seattle)])
\* the components only, the state empty
PartsOnly ==
  PartsListing(3, <<"l","3">>,
    [address_street |-> Str(T_123_Main_St), address_city |-> Str(T_Seattle),
     address_state |-> EmptyStr, address_zip |-> Str(T_98101)])
\* an empty address beside the street
EmptyAddress ==
  PartsListing(3, <<"l","5">>,
    [address |-> EmptyStr, address_street |-> Str(T_123_Main_St)])
\* the property of FullListing with the street for its address
StreetForAddress ==
  RawListingRecord(T_crexi, 4, <<"c","2">>,
    [FullListing EXCEPT !["address"] = Str(T_123_Main_St)])
\* the property of FullListing without its address
NoAddress ==
  RawListingRecord(T_crexi, 4, <<"c","3">>,
    [FullListing EXCEPT !["address"] = Absent])

\* the street given as a dict, beside the city
DictForStreet ==
  PartsListing(3, <<"l","6">>,
    [address_street |-> AddressDict, address_city |-> Str(T_Seattle)])
\* the property of FullListing with its ZIP code in a list, and in a dict
ListForZip ==
  RawListingRecord(T_loopnet, 1, <<"l","7">>,
    [FullListing EXCEPT !["address_zip"] = ListOf(Num(98101))])
DictForZip ==
  RawListingRecord(T_crexi, 1, <<"c","4">>,
    [FullListing EXCEPT !["address_zip"] = ZipDict])

FieldPool ==
  {BedsThree, BedsFour, BedsNull, FullOnly, PartsOnly, EmptyAddress,
   StreetForAddress, NoAddress, DictForStreet, ListForZip, DictForZip}

RECURSIVE FieldSeqs(_)
FieldSeqs(n) ==
  IF n = 0 THEN {<<>>}
  ELSE LET shorter == FieldSeqs(n - 1)
       IN shorter \cup {Append(s, l) : s \in shorter, l \in FieldPool}

InitFields ==
  \E input \in FieldSeqs(MaxFieldListings) :
    /\ raw_listings = <<input>>
    /\ pc = <<"start">>
    /\ i = <<0>>
    /\ j = <<0>>
    /\ group = << <<>> >>
    /\ groups = << <<>> >>
    /\ processed = << {} >>
    /\ group_id = <<0>>
    /\ consolidated_properties = << <<>> >>
    /\ raised = <<"none">>
    /\ NoNormalizerRun
    /\ NoMatcherRun
    /\ NoConsolidatorRun
    /\ NoClassifierRun

SpecFields == InitFields /\ [][Next]_vars

(***************************************************************************)
(* Calls of DataConsolidator on one group of listings and one field:       *)
(* get_field_precedence, then detect_conflicts.                            *)
(***************************************************************************)
Platforms == <<T_zillow, T_loopnet, T_crexi, T_zillow>>

\* what a listing may hold under the field
ObservedValues ==
  {Absent, None, Num(-5), Num(0), Num(93), Num(95), Num(100), Num(101),
   Num(104), Num(200), Str(T_1000000_formatted), ListOf(Num(100)),
   ListOf(Num(101))}

\* the dict of listing k of a group, extracted on a day, with one field
Observation(k, day, field, v) ==
  [source_platform |-> Platforms[k],
   extraction_timestamp |-> day,
   listing_id |-> <<DigitChars[k + 1]>>,
   raw_fields |-> [NoFields EXCEPT ![field] = v],
   metadata |-> [listing_index |-> k]]

InitConsolidate ==
  \E n \in 0..MaxGroup :
    \E days \in [1..n -> 1..MaxDay], observed \in [1..n -> ObservedValues] :
      /\ field_name = "price"
      /\ listings =
           [k \in 1..n |-> Observation(k, days[k], "price", observed[k])]
      /\ answers = <<>>
      /\ NoNormalizerRun
      /\ NoMatcherRun
      /\ NoProcessRun
      /\ NoClassifierRun

\* DataConsolidator.get_field_precedence(field_name, listings)
Pick ==
  /\ Len(answers) = 0
  /\ answers' =
       <<[call |-> "get_field_precedence", st |-> "ok",
          value |-> get_field_precedence(field_name, listings),
          conflict |-> NoConflict]>>
  /\ UNCHANGED <<field_name, listings, normalizerVars, matcherVars,
                 processVars, classifierVars>>

\* the answer of detect_conflicts as an entry of answers
DetectAnswer(r) ==
  [call |-> "detect_conflicts", st |-> r.st, value |-> None,
   conflict |-> r.conflict]

\* DataConsolidator.detect_conflicts(field_name, listings)
Detect ==
  /\ Len(answers) = 1
  /\ answers' =
       Append(answers, DetectAnswer(detect_conflicts(field_name, listings)))
  /\ UNCHANGED <<field_name, listings, normalizerVars, matcherVars,
                 processVars, classifierVars>>

NextConsolidate == Pick \/ Detect

SpecConsolidate == InitConsolidate /\ [][NextConsolidate]_vars

(***************************************************************************)
(* Calls of PropertyClassifier.classify_property on one consolidated       *)
(* record.                                                                 *)
(***************************************************************************)
T_SINGLE_FAMILY == <<"S","I","N","G","L","E","_","F","A","M","I","L","Y">>
T_LAND == <<"L","A","N","D">>
T_1250000_formatted == <<"$","1",",","2","5","0",",","0","0","0">>
T_400 == <<"4","0","0">>
\* "99999.99999999999999999" and "50000000.000000001": float() gives the
\* whole numbers 100000.0 and 50000000.0
T_nearly_100000 ==
  <<"9","9","9","9","9",".","9","9","9","9","9","9","9","9","9","9","9","9",
    "9","9","9","9","9">>
T_barely_over_50000000 ==
  <<"5","0","0","0","0","0","0","0",".","0","0","0","0","0","0","0","0","1">>
\* "99999.99": float() gives a number below 100000.0
T_below_100000 == <<"9","9","9","9","9",".","9","9">>

\* what a consolidated record may hold under the keys the classifier reads
AddressValues == {Absent, None, EmptyStr, Str(T_123_Main_St)}
HomeTypeValues == {Absent, None, Str(T_OFFICE), Str(T_SINGLE_FAMILY)}
PropertyTypeValues == {Absent, Str(T_LAND), ListOf(Str(T_LAND))}
PriceValues ==
  {Absent, None, Num(0), Num(99999), Num(100000), Num(1250000),
   Num(50000000), Num(60000000), Str(T_1250000_formatted), Str(T_abc),
   ListOf(Num(1250000)), Str(T_nearly_100000), Str(T_barely_over_50000000),
   Str(T_below_100000)}
UnformattedPriceValues == {Absent, Num(1250000), Num(60000000)}
DaysOnZillowValues ==
  {Absent, None, Num(365), Num(400), Str(T_400), Str(T_abc),
   ListOf(Num(400))}
DaysOnMarketValues == {Absent, Num(400)}

InitClassify ==
  \E a \in AddressValues, h \in HomeTypeValues, t \in PropertyTypeValues,
     pr \in PriceValues, u \in UnformattedPriceValues,
     z \in DaysOnZillowValues, d \in DaysOnMarketValues :
    /\ consolidated_data =
         [NoFields EXCEPT !["address"] = a, !["homeType"] = h,
                          !["property_type"] = t, !["price"] = pr,
                          !["unformattedPrice"] = u, !["daysOnZillow"] = z,
                          !["days_on_market"] = d]
    /\ verdicts = <<>>
    /\ NoNormalizerRun
    /\ NoMatcherRun
    /\ NoProcessRun
    /\ NoConsolidatorRun

\* PropertyClassifier.classify_property(consolidated_data)
Classify ==
  /\ Len(verdicts) = 0
  /\ verdicts' = <<classify_property(consolidated_data)>>
  /\ UNCHANGED <<consolidated_data, normalizerVars, matcherVars, processVars,
                 consolidatorVars>>

NextClassify == Classify

SpecClassify == InitClassify /\ [][NextClassify]_vars

(***************************************************************************)
(* Properties of the normalizer.                                           *)
(***************************************************************************)
EndsWith(s, suffix) ==
  Len(suffix) <= Len(s) /\ StartsAt(s, Len(s) - Len(suffix) + 1, suffix)

Text_123_MAIN_STREET == Text(Ex_123_MAIN_STREET)
Text_456_NORTH_OAK_AVENUE ==
  <<"4","5","6"," ","N","O","R","T","H"," ","O","A","K"," ",
    "A","V","E","N","U","E">>
Text_100_PARK_PLACE ==
  <<"1","0","0"," ","P","A","R","K"," ","P","L","A","C","E">>
Text_UNIT_5 == <<"U","N","I","T"," ","5">>

\* C4: normalization is idempotent: normalizing the result of
\* normalize_address gives that result again.
C4_Idempotent ==
  Len(results) >= 2 => results[2] = results[1]

\* C8: normalize_address ignores case and spells whole-word street-suffix
\* and directional abbreviations in full: an address and the same address
\* with one abbreviation written as the full word, or written in upper case,
\* have the same upper-case result; "123 Main St" and "123 MAIN STREET"
\* both give "123 MAIN STREET", "456 N Oak Ave" gives "456 NORTH OAK AVENUE".
C8_AbbreviationsAndCase ==
  /\ (Len(results) >= 1 /\ address = Text(Ex_123_Main_St))
       => results[1] = Text_123_MAIN_STREET
  /\ (Len(results) >= 1 /\ address = Text(Ex_123_MAIN_STREET))
       => results[1] = Text_123_MAIN_STREET
  /\ (Len(results) >= 1 /\ address = Text(Ex_456_N_Oak_Ave))
       => results[1] = Text_456_NORTH_OAK_AVENUE
  /\ Len(results) >= 1 => results[1] = Upper(results[1])
  /\ (Len(results) = 3 /\ variant.kind \in {"expand", "case"})
       => results[3] = results[1]

\* "123 Main St" and "123 Main STREET" have both been normalized, to
\* "123 MAIN STREET"
C8_Witness ==
  /\ Len(results) = 3
  /\ address = Text(Ex_123_Main_St)
  /\ variant.kind = "expand"
  /\ variant.text # address
  /\ results[1] = Text_123_MAIN_STREET
  /\ results[3] = Text_123_MAIN_STREET

\* C9: a number written with and without a leading zero normalizes to the
\* same string, and the result for "0100 Park Pl" starts with
\* "100 PARK PLACE".
C9_LeadingZeros ==
  /\ (Len(results) >= 1 /\ address = Text(Ex_0100_Park_Pl))
       => StartsAt(results[1], 1, Text_100_PARK_PLACE)
  /\ (Len(results) = 3 /\ variant.kind = "zeros")
       => results[3] = results[1]

\* "0100 Park Pl" and "00100 Park Pl" have both been normalized
C9_Witness ==
  /\ Len(results) = 3
  /\ address = Text(Ex_0100_Park_Pl)
  /\ variant.kind = "zeros"
  /\ StartsAt(results[3], 1, Text_100_PARK_PLACE)

\* C10: the unit markers Apt, Suite, Ste, Unit and # before the same
\* designator all normalize to "UNIT " and the designator: two addresses
\* that differ only in the marker have the same result, ending in "UNIT 5".
C10_UnitMarkers ==
  (Len(results) = 3 /\ variant.kind = "unit")
    => /\ results[3] = results[1]
       /\ EndsWith(results[1], Text_UNIT_5)
       /\ EndsWith(results[3], Text_UNIT_5)

(***************************************************************************)
(* Properties of the matcher.                                              *)
(***************************************************************************)
\* no value of the mapping is a list or a dict
OnlyScalars(listing) == \A f \in Fields : ~IsNested(listing[f])

\* C3: calculate_match_score tolerates missing data: when fields of either
\* listing are absent or null (and no value is nested) it returns a score
\* and does not raise, and a listing without an address gets nothing from
\* the address signal (at most 0.60 in all).
C3_ToleratesMissingFields ==
  (Len(outcomes) >= 1 /\ OnlyScalars(listing1) /\ OnlyScalars(listing2))
    => /\ outcomes[1].st = "ok"
       /\ (~Truthy(AddressOf(listing1)) \/ ~Truthy(AddressOf(listing2)))
            => outcomes[1].score.c <= 60

\* C5: the score is symmetric: is_match(a, b) and is_match(b, a) have the
\* same outcome.
C5_Symmetric ==
  Len(outcomes) = 2 => outcomes[2] = outcomes[1]

NonEmptyStr(v) == v.k = "str" /\ v.s # <<>>
NonEmptyScalar(v) == Truthy(v) /\ v.k \in {"str", "num"}

\* non-empty address, city, state, ZIP, property type, size and price
FullyPopulated(listing) ==
  /\ NonEmptyStr(AddressOf(listing))
  /\ NonEmptyStr(Get(listing, "address_city"))
  /\ NonEmptyStr(Get(listing, "address_state"))
  /\ NonEmptyStr(Get(listing, "address_zip"))
  /\ NonEmptyStr(Or(Get(listing, "homeType"), Get(listing, "property_type")))
  /\ NonEmptyScalar(SizeOf(listing))
  /\ NonEmptyScalar(PriceOf(listing))

\* C6: a fully populated listing compared with a copy of itself scores
\* exactly 1.0.
C6_SelfScoreIsOne ==
  (Len(outcomes) >= 1 /\ listing1 = listing2 /\ FullyPopulated(listing1))
    => /\ outcomes[1].st = "ok"
       /\ outcomes[1].score = FOne

\* pairs of 'street, city, ST zip' addresses that differ in the spelling
\* (abbreviated or full) of the street suffix
SuffixSpellings ==
  { <<T_123_Main_Street_Seattle, T_123_Main_St_Seattle>>,
    <<T_123_Main_St_Seattle, T_123_Main_Street_Seattle>>,
    <<T_9_Oak_Avenue_Tacoma, T_9_Oak_Ave_Tacoma>>,
    <<T_9_Oak_Ave_Tacoma, T_9_Oak_Avenue_Tacoma>> }

\* within 5% of each other, as numbers
Within5Percent(v1, v2) ==
  /\ v1.k = "num" /\ v2.k = "num"
  /\ v1.n > 0 /\ v2.n > 0
  /\ 100 * Abs(v1.n - v2.n) < 5 * Max(v1.n, v2.n)

\* the listings have an address, a price and an area and nothing else; the
\* addresses differ in the spelling of the suffix, price and area by less
\* than 5%
SuffixSpellingCase(a, b) ==
  /\ \A f \in Fields \ {"address", "price", "area"} :
       a[f] = Absent /\ b[f] = Absent
  /\ a["address"].k = "str" /\ b["address"].k = "str"
  /\ <<a["address"].s, b["address"].s>> \in SuffixSpellings
  /\ Within5Percent(a["price"], b["price"])
  /\ Within5Percent(a["area"], b["area"])

\* C7: two listings without property type whose addresses differ only in
\* the spelling of the street suffix and whose price and area differ by less
\* than 5% are a match at the default threshold, with a score above 0.70,
\* in both argument orders.
C7_SuffixSpellingMatch ==
  SuffixSpellingCase(listing1, listing2)
    => \A k \in 1..Len(outcomes) :
         /\ outcomes[k].st = "ok"
         /\ outcomes[k].match
         /\ FGt(outcomes[k].score, Lit070)

\* the listings of test_property_matching have been matched, with score
\* 0.8500000000000001
C7_Witness ==
  /\ listing1 = TestListing1
  /\ listing2 = TestListing2
  /\ Len(outcomes) = 2
  /\ outcomes[1].match
  /\ outcomes[1].score = [c |-> 85, e |-> 1280]

(***************************************************************************)
(* Properties of process_listings.                                         *)
(***************************************************************************)
\* is_match returned true for listings a and b (indexes from 0) of p
Matches(p, a, b) ==
  LET outcome == is_match(ListingDict(p, a).raw_fields,
                          ListingDict(p, b).raw_fields)
  IN outcome.st = "ok" /\ outcome.match

\* the indexes in the first n closed groups of p
InGroupsBefore(p, n) ==
  UNION {Range(groups[p][h]) : h \in 1..(n - 1)}

\* the summary of input listing k (from 0) of p
InputSummary(p, k) == SourceSummary(ListingDict(p, k))

\* C1: grouping is leader-based and not transitively closed.  A closed
\* group is its leader followed, in input order, by exactly the later
\* listings that no earlier group holds and that match the leader, whatever
\* they are to the other members; and for an input [A, B, C] with
\* is_match(A,B), not is_match(A,C) and is_match(B,C) the result is one
\* property with source listings A, B and another with source listing C.
C1_LeaderBased ==
  \A p \in DOMAIN pc :
    /\ \A g \in 1..Len(groups[p]) :
         LET members == groups[p][g]
             leader == members[1]
         IN /\ Range(members) =
                 {leader} \cup
                 {m \in (leader + 1)..(Len(raw_listings[p]) - 1) :
                    m \notin InGroupsBefore(p, g) /\ Matches(p, leader, m)}
            /\ \A k \in 1..(Len(members) - 1) : members[k] < members[k + 1]
    /\ ( /\ pc[p] = "done"
         /\ Len(raw_listings[p]) = 3
         /\ Matches(p, 0, 1) /\ ~Matches(p, 0, 2) /\ Matches(p, 1, 2) )
       => /\ Len(consolidated_properties[p]) = 2
          /\ consolidated_properties[p][1].source_listings =
               <<InputSummary(p, 0), InputSummary(p, 1)>>
          /\ consolidated_properties[p][2].source_listings =
               <<InputSummary(p, 2)>>

\* process_listings has returned for [A, B, C], where B matches both A and
\* C and A does not match C, with two properties
C1_Witness ==
  \E p \in DOMAIN pc :
    /\ pc[p] = "done"
    /\ raw_listings[p] = <<ListingA, ListingB, ListingC>>
    /\ Matches(p, 0, 1) /\ ~Matches(p, 0, 2) /\ Matches(p, 1, 2)
    /\ Len(consolidated_properties[p]) = 2

\* the places <<o, m>> of the source listings of the properties built by p
SourcePlaces(p) ==
  {place \in (1..Len(consolidated_properties[p]))
               \X (1..Len(raw_listings[p])) :
     place[2] <= Len(consolidated_properties[p][place[1]].source_listings)}

\* C2: the groups partition the input.  No group is empty and no index is
\* in two groups; when process_listings returns, every property has at
\* least one source listing, every input listing is a source listing as
\* many times as it is in the input, and the source listings are as many
\* as the input listings.
C2_Partition ==
  \A p \in DOMAIN pc :
    /\ \A g \in 1..Len(groups[p]) :
         /\ Len(groups[p][g]) >= 1
         /\ Range(groups[p][g]) \cap InGroupsBefore(p, g) = {}
         /\ Cardinality(Range(groups[p][g])) = Len(groups[p][g])
    /\ pc[p] = "done" =>
         /\ Len(consolidated_properties[p]) = Len(groups[p])
         /\ \A o \in 1..Len(consolidated_properties[p]) :
              Len(consolidated_properties[p][o].source_listings) >= 1
         /\ \A k \in 0..(Len(raw_listings[p]) - 1) :
              Cardinality(
                {place \in SourcePlaces(p) :
                   consolidated_properties[p][place[1]]
                     .source_listings[place[2]] = InputSummary(p, k)})
              = Cardinality(
                  {h \in 0..(Len(raw_listings[p]) - 1) :
                     InputSummary(p, h) = InputSummary(p, k)})
         /\ Cardinality(SourcePlaces(p)) = Len(raw_listings[p])

\* process_listings has returned two properties for three listings, the
\* second property with two source listings
C2_Witness ==
  \E p \in DOMAIN pc :
    /\ pc[p] = "done"
    /\ Len(raw_listings[p]) = 3
    /\ Len(consolidated_properties[p]) = 2
    /\ Len(consolidated_properties[p][1].source_listings) = 1
    /\ Len(consolidated_properties[p][2].source_listings) = 2

(***************************************************************************)
(* Properties of the consolidator.                                         *)
(***************************************************************************)
\* the listings of the group that hold the field
Holders == {k \in 1..Len(listings) : listings[k].raw_fields[field_name] # Absent}

\* holder k is extracted no earlier than every holder, and later than every
\* holder before it in the group
WinsPrecedence(k) ==
  /\ \A h \in Holders :
       listings[h].extraction_timestamp <= listings[k].extraction_timestamp
  /\ \A h \in Holders :
       h < k =>
         listings[h].extraction_timestamp < listings[k].extraction_timestamp

\* C11: get_field_precedence returns the value held by the listing with the
\* latest extraction_timestamp among the listings whose raw_fields contain
\* the field, the first of them in group order when several share that
\* timestamp, and None when no listing contains the field.
C11_LatestFirstWins ==
  Len(answers) >= 1 =>
    IF Holders = {} THEN answers[1].value = None
    ELSE \E k \in Holders :
           /\ WinsPrecedence(k)
           /\ answers[1].value = Get(listings[k].raw_fields, field_name)

\* two holders share the latest timestamp with different values, a third
\* listing does not hold the field, and the call has returned
C11_Witness ==
  /\ Len(answers) >= 1
  /\ \E k \in Holders : \E h \in Holders :
       /\ k < h
       /\ WinsPrecedence(k)
       /\ listings[h].extraction_timestamp = listings[k].extraction_timestamp
       /\ listings[h].raw_fields[field_name] # listings[k].raw_fields[field_name]
       /\ answers[1].value = listings[k].raw_fields[field_name]
  /\ \E k \in 1..Len(listings) : k \notin Holders

\* the listings of the group whose value of the field is not None, and the
\* numbers among the values
Observers ==
  {k \in 1..Len(listings) : Get(listings[k].raw_fields, field_name) # None}
ObservedNumbers ==
  {listings[k].raw_fields[field_name].n :
     k \in {h \in Observers : listings[h].raw_fields[field_name].k = "num"}}
AllNumeric ==
  /\ Observers # {}
  /\ \A k \in Observers : listings[k].raw_fields[field_name].k = "num"

\* (max - min)/max > 5% in exact arithmetic
VarianceAbove5Percent(max_val, min_val) ==
  max_val > 0 /\ 100 * (max_val - min_val) > 5 * max_val

\* x and y are the same double or next to each other
WithinOneUlp(x, y) == x = y \/ NextUp(x) = y \/ NextUp(y) = x

\* the doubles 50.0 and 7.0
Fifty == [sig |-> [k \in 1..SigBits |-> IF k \in {1, 2, 5} THEN 1 ELSE 0],
          exp |-> 5]
Seven == [sig |-> [k \in 1..SigBits |-> IF k \in {1, 2, 3} THEN 1 ELSE 0],
          exp |-> 2]

\* the answer a of detect_conflicts on whole numbers: a conflict exactly when the
\* variance is above 5%, with variance_percent the double nearest to
\* 100*(max - min)/max
ExactPercent(a, max_val, min_val) ==
  /\ a.st = "ok"
  /\ IF VarianceAbove5Percent(max_val, min_val)
     THEN /\ a.conflict.kind = "numeric"
          /\ a.conflict.variance_percent =
               FDiv(100 * (max_val - min_val), max_val)
     ELSE a.conflict = NoConflict

\* the same with variance_percent at most one unit in the last place away
\* from the double nearest to 100*(max - min)/max
PercentToOneUlp(a, max_val, min_val) ==
  /\ a.st = "ok"
  /\ IF VarianceAbove5Percent(max_val, min_val)
     THEN /\ a.conflict.kind = "numeric"
          /\ WithinOneUlp(a.conflict.variance_percent,
                          FDiv(100 * (max_val - min_val), max_val))
     ELSE a.conflict = NoConflict

\* C12 as stated: on observations that are all whole numbers, detect_conflicts
\* returns a conflict exactly when max > 0 and (max - min)/max > 5%, with
\* variance_percent = 100*(max - min)/max, and None otherwise.
C12_VariancePercent ==
  (Len(answers) = 2 /\ AllNumeric) =>
    ExactPercent(answers[2], Greatest(ObservedNumbers), Least(ObservedNumbers))

\* C12 as amended: on observations that are all whole numbers (ints, whose
\* difference max - min is exact), detect_conflicts returns a conflict
\* exactly when max > 0 and (max - min)/max > 5%, and None otherwise;
\* variance_percent is the product by 100 of the rounded quotient, within
\* one unit in the last place of 100*(max - min)/max: 50 for
\* [100, 101, 200], the double after 7 for [100, 93]; [100, 101, 104] gives
\* None.  Observations that are floats are not covered: their difference is
\* rounded as well and the result can be two units away.
C12_VarianceToOneUlp ==
  (Len(answers) = 2 /\ AllNumeric) =>
    /\ PercentToOneUlp(answers[2], Greatest(ObservedNumbers),
                       Least(ObservedNumbers))
    /\ ObservedNumbers = {100, 101, 200} =>
         answers[2].conflict.variance_percent = Fifty
    /\ ObservedNumbers = {100, 101, 104} => answers[2].conflict = NoConflict
    /\ ObservedNumbers = {100, 93} =>
         answers[2].conflict.variance_percent = NextUp(Seven)

\* detect_conflicts has answered on the observations 100, 101 and 200 of
\* three listings with a conflict of 50 percent
C12_Witness ==
  /\ Len(answers) = 2
  /\ AllNumeric
  /\ Cardinality(Observers) = 3
  /\ ObservedNumbers = {100, 101, 200}
  /\ answers[2].conflict.kind = "numeric"
  /\ answers[2].conflict.variance_percent = Fifty

(***************************************************************************)
(* Properties of the classifier.                                           *)
(***************************************************************************)
Classified == Len(verdicts) = 1

\* the record has an address that is not empty
AddressPresent ==
  consolidated_data["address"].k = "str" /\ consolidated_data["address"].s # <<>>

\* the values the record gives under some keys, None apart
Given(keys) ==
  {consolidated_data[f] : f \in {g \in keys : Get(consolidated_data, g) # None}}

PricesGiven == Given({"unformattedPrice", "price"})
DaysGiven == Given({"daysOnZillow", "days_on_market"})
TypesGiven == Given({"homeType", "property_type"})

\* the price a value stands for: the number, or the number written by the
\* digits and points of a string
ParsedPrice(v) == IF v.k = "str" THEN PriceOfText(v.s) ELSE PriceValue(v)
Parses(v) == v.k \in {"num", "str"} /\ ParsedPrice(v).st = "ok"
BelowOrAboveBand(v) ==
  /\ Parses(v)
  /\ \/ ParsedPrice(v).n < 100000
     \/ ParsedPrice(v).n > 50000000
     \/ (ParsedPrice(v).n = 50000000 /\ ParsedPrice(v).more)
InsideBand(v) == Parses(v) /\ ~BelowOrAboveBand(v)

PriceOutOfBand == PricesGiven # {} /\ \A v \in PricesGiven : BelowOrAboveBand(v)
PriceInBand == PricesGiven # {} /\ \A v \in PricesGiven : InsideBand(v)
PriceMalformed == PricesGiven # {} /\ \A v \in PricesGiven : ~Parses(v)

\* the days a value stands for
CountsDays(v) == v.k \in {"num", "str"} /\ ToInt(v).st = "ok"
DaysAboveCeiling ==
  DaysGiven # {} /\ \A v \in DaysGiven : CountsDays(v) /\ ToInt(v).n > 365
DaysWithinCeiling ==
  DaysGiven # {} /\ \A v \in DaysGiven : CountsDays(v) /\ ToInt(v).n <= 365
DaysMalformed == DaysGiven # {} /\ \A v \in DaysGiven : ~CountsDays(v)

\* C13: classify_property returns ('discarded', 'missing_critical_fields',
\* details) whenever 'address' is absent or empty, whatever the price, the
\* days on market and the property type.
C13_MissingAddressFirst ==
  (Classified /\ consolidated_data["address"] \in {Absent, None, EmptyStr}) =>
    verdicts[1] =
      Verdict("discarded", "missing_critical_fields", "incomplete_data")

\* the call has returned on a record with an empty address, a price above
\* the band, stale days and a property type that is not a string
C13_Witness ==
  /\ Classified
  /\ consolidated_data["address"] = EmptyStr
  /\ consolidated_data["price"] = Num(60000000)
  /\ consolidated_data["unformattedPrice"] = Absent
  /\ consolidated_data["daysOnZillow"] = Num(400)
  /\ consolidated_data["property_type"] = ListOf(Str(T_LAND))
  /\ verdicts[1].discard_reason = "missing_critical_fields"

\* C14: with an address, a price (a number, or a string parsed after
\* stripping what is not a digit or a point) below 100,000 or above
\* 50,000,000 gives ('discarded', 'outside_investment_mandate') whatever the
\* days on market, and a price inside the band is not discarded.
C14_PriceRule ==
  (Classified /\ AddressPresent) =>
    /\ PriceOutOfBand =>
         /\ verdicts[1].st = "ok"
         /\ verdicts[1].classification = "discarded"
         /\ verdicts[1].discard_reason = "outside_investment_mandate"
    /\ PriceInBand =>
         /\ verdicts[1].st = "ok"
         /\ verdicts[1].classification # "discarded"

\* C15: with an address and a price absent or inside the band, days on
\* market above 365 give ('flagged', None, None) and days on market of at
\* most 365 give 'usable'.
C15_StaleFlagged ==
  (Classified /\ AddressPresent /\ (PricesGiven = {} \/ PriceInBand)) =>
    /\ DaysAboveCeiling => verdicts[1] = Verdict("flagged", "none", "none")
    /\ DaysWithinCeiling => verdicts[1] = Verdict("usable", "none", "none")

\* C16: with an address, a malformed price or days-on-market value never
\* makes classify_property raise: the rule is skipped and the call returns
\* usable, flagged or discarded.
C16_MalformedSkipped ==
  (Classified /\ AddressPresent /\ (PriceMalformed \/ DaysMalformed)) =>
    /\ verdicts[1].st = "ok"
    /\ verdicts[1].classification \in {"usable", "flagged", "discarded"}
    /\ PriceMalformed =>
         verdicts[1].discard_reason # "outside_investment_mandate"
    /\ DaysMalformed => verdicts[1].classification # "flagged"

\* C17: with an address, a price absent or inside the band and days on
\* market absent or at most 365, the record is 'usable' for every property
\* type value; the property type never changes the classification.
C17_TypeIgnored ==
  (Classified /\ AddressPresent) =>
    /\ ((PricesGiven = {} \/ PriceInBand)
        /\ (DaysGiven = {} \/ DaysWithinCeiling)) =>
         verdicts[1] = Verdict("usable", "none", "none")
    /\ verdicts[1] =
         classify_property([consolidated_data EXCEPT
                              !["homeType"] = Absent,
                              !["property_type"] = Absent])

(***************************************************************************)
(* Properties of the output of process_listings.                           *)
(***************************************************************************)
\* the properties built so far by invocation p that are classified c
ClassifiedAs(p, c) ==
  {k \in 1..Len(consolidated_properties[p]) :
     consolidated_properties[p][k].classification = c}

\* C18: in every ConsolidatedProperty of process_listings the
\* classification is usable, flagged or discarded, discard_reason is set
\* exactly when it is discarded, and so is discard_details.
C18_DiscardFieldsIffDiscarded ==
  \A p \in DOMAIN pc :
    \A k \in 1..Len(consolidated_properties[p]) :
      /\ consolidated_properties[p][k].classification
           \in {"usable", "flagged", "discarded"}
      /\ consolidated_properties[p][k].discard_reason # "none"
           <=> consolidated_properties[p][k].classification = "discarded"
      /\ consolidated_properties[p][k].discard_details # "none"
           <=> consolidated_properties[p][k].classification = "discarded"

\* process_listings has returned a discarded property beside a flagged one
C18_Witness ==
  \E p \in DOMAIN pc :
    /\ pc[p] = "done"
    /\ ClassifiedAs(p, "discarded") # {}
    /\ ClassifiedAs(p, "flagged") # {}

\* 'PROP-' and k in six digits, for k below 10
SixDigitId(k) ==
  <<"P","R","O","P","-","0","0","0","0","0">>
    \o <<<<"0","1","2","3","4","5","6","7","8","9">>[k + 1]>>

\* the summaries of the listings of closed group g (from 1) of p, in the
\* order of the group
GroupSummaries(p, g) ==
  [m \in 1..Len(groups[p][g]) |-> InputSummary(p, groups[p][g][m])]

\* the properties of p are those of its first groups, in order
OnePropertyPerGroup(p) ==
  /\ Len(consolidated_properties[p]) <= Len(groups[p])
  /\ pc[p] = "done" => Len(consolidated_properties[p]) = Len(groups[p])
  /\ \A k \in 1..Len(consolidated_properties[p]) :
       /\ consolidated_properties[p][k].property_id = SixDigitId(k - 1)
       /\ consolidated_properties[p][k].source_listings = GroupSummaries(p, k)
  /\ \A k, h \in 1..Len(consolidated_properties[p]) :
       k # h => consolidated_properties[p][k].property_id
                  # consolidated_properties[p][h].property_id

\* the leaders of the groups of p are in input order, each the first
\* listing that no earlier group holds
LeadersInInputOrder(p) ==
  \A g \in 1..Len(groups[p]) :
    /\ groups[p][g][1] \notin InGroupsBefore(p, g)
    /\ \A k \in 0..(groups[p][g][1] - 1) : k \in InGroupsBefore(p, g)
    /\ \A m \in 1..(Len(groups[p][g]) - 1) :
         groups[p][g][m] < groups[p][g][m + 1]

\* a step leaves the properties of p alone or appends one property
EmitsInOrder(p) ==
  \/ consolidated_properties'[p] = consolidated_properties[p]
  \/ /\ Len(consolidated_properties'[p]) = Len(consolidated_properties[p]) + 1
     /\ SubSeq(consolidated_properties'[p], 1, Len(consolidated_properties[p]))
          = consolidated_properties[p]

\* C19: process_listings emits one property per group in the order of the
\* leaders in the input; output k (from 0) has property_id 'PROP-' and k
\* in six digits, so the ids of a run are pairwise distinct and the same
\* whatever the listings hold; the source listings of an output are those
\* of its group in group order, the leader first, the members in input
\* order.
C19_OnePropertyPerGroupInOrder ==
  /\ [](\A p \in DOMAIN pc : OnePropertyPerGroup(p) /\ LeadersInInputOrder(p))
  /\ [][\A p \in DOMAIN pc : EmitsInOrder(p)]_vars

\* process_listings has returned two properties for three listings: the
\* first from the first and the third listing, the second from the second
C19_Witness ==
  \E p \in DOMAIN pc :
    /\ pc[p] = "done"
    /\ groups[p] = <<<<0, 2>>, <<1>>>>
    /\ Len(consolidated_properties[p]) = 2
    /\ consolidated_properties[p][2].property_id = SixDigitId(1)

(***************************************************************************)
(* Properties of interleaved invocations.  process_listings run alone is   *)
(* computed as a function of its argument: [st, groups, properties].       *)
(***************************************************************************)
\* lines 492-501: the dicts built from an argument of process_listings
DictsOf(input) ==
  [k \in 1..Len(input) |->
     [source_platform |-> input[k].source_platform,
      extraction_timestamp |-> input[k].extraction_timestamp,
      listing_id |-> input[k].listing_id_native,
      raw_fields |-> input[k].raw_fields,
      metadata |-> input[k].metadata]]

RECURSIVE MembersAlone(_, _, _, _, _)
RECURSIVE ComparedAlone(_, _, _, _, _, _)
\* lines 548-550 run alone, given what is_match returned or raised
ComparedAlone(dicts, leader, k, members, assigned, outcome) ==
  IF outcome.st # "ok"
  THEN [st |-> outcome.st, members |-> members, assigned |-> assigned]
  ELSE IF outcome.match
  THEN MembersAlone(dicts, leader, k + 1, Append(members, k),
                    assigned \cup {k})
  ELSE MembersAlone(dicts, leader, k + 1, members, assigned)

\* lines 539-550 run alone from listing k on: [st, members, assigned]
MembersAlone(dicts, leader, k, members, assigned) ==
  IF k >= Len(dicts)
  THEN [st |-> "ok", members |-> members, assigned |-> assigned]
  ELSE IF k \in assigned
  THEN MembersAlone(dicts, leader, k + 1, members, assigned)
  ELSE ComparedAlone(dicts, leader, k, members, assigned,
         is_match(dicts[leader + 1].raw_fields, dicts[k + 1].raw_fields))

RECURSIVE GroupsAlone(_, _, _, _)
RECURSIVE ClosedAlone(_, _, _, _)
\* line 552 run alone, given the inner loop's outcome
ClosedAlone(dicts, leader, closed, inner) ==
  IF inner.st # "ok"
  THEN [st |-> inner.st, groups |-> closed]
  ELSE GroupsAlone(dicts, leader + 1, Append(closed, inner.members),
                   inner.assigned)

\* lines 527-554 run alone from listing leader on: [st, groups]
GroupsAlone(dicts, leader, closed, assigned) ==
  IF leader >= Len(dicts)
  THEN [st |-> "ok", groups |-> closed]
  ELSE IF leader \in assigned
  THEN GroupsAlone(dicts, leader + 1, closed, assigned)
  ELSE ClosedAlone(dicts, leader, closed,
         MembersAlone(dicts, leader, leader + 1, <<leader>>,
                      assigned \cup {leader}))

RECURSIVE PropertiesAlone(_, _, _, _)
RECURSIVE AppendedAlone(_, _, _, _, _)
\* lines 509-510 run alone, given what _consolidate_group returned or raised
AppendedAlone(dicts, grouped, n, built, consolidated) ==
  IF consolidated.st # "ok"
  THEN [st |-> consolidated.st, groups |-> grouped, properties |-> built]
  ELSE PropertiesAlone(dicts, grouped, n + 1,
                       Append(built, consolidated.property))

\* lines 507-512 run alone from group n (from 0) on
PropertiesAlone(dicts, grouped, n, built) ==
  IF n >= Len(grouped)
  THEN [st |-> "ok", groups |-> grouped, properties |-> built]
  ELSE AppendedAlone(dicts, grouped, n, built,
         _consolidate_group(n,
           [m \in 1..Len(grouped[n + 1]) |-> dicts[grouped[n + 1][m] + 1]]))

\* lines 504-512 run alone, given what _group_listings returned or raised
ConsolidatedAlone(dicts, grouping) ==
  IF grouping.st # "ok"
  THEN [st |-> grouping.st, groups |-> <<>>, properties |-> <<>>]
  ELSE PropertiesAlone(dicts, grouping.groups, 0, <<>>)

\* process_listings run alone on an argument
RunAlone(input) ==
  ConsolidatedAlone(DictsOf(input), GroupsAlone(DictsOf(input), 0, <<>>, {}))

\* invocation p, once over, has ended as the run alone ends
EndsAs(p, alone) ==
  /\ pc[p] = "done" =>
       /\ alone.st = "ok"
       /\ groups[p] = alone.groups
       /\ consolidated_properties[p] = alone.properties
  /\ pc[p] = "raised" => raised[p] = alone.st

\* C20: the set of assigned indexes is local to one invocation of
\* process_listings.  When the steps of two invocations on one node are
\* interleaved in any way, each returns the groups, property ids and
\* classifications it returns when it runs alone, and invocations on the
\* same input return the same groups, ids and classifications.
C20_InvocationsIndependent ==
  /\ \A p \in DOMAIN pc :
       pc[p] \in {"done", "raised"} => EndsAs(p, RunAlone(raw_listings[p]))
  /\ \A p, q \in DOMAIN pc :
       ( /\ raw_listings[p] = raw_listings[q]
         /\ pc[p] = "done" /\ pc[q] = "done" )
       => /\ groups[p] = groups[q]
          /\ consolidated_properties[p] = consolidated_properties[q]

\* two invocations on one node have returned, one for [A, B] with one
\* property and one for [A, C] with two, each having assigned indexes the
\* other has not
C20_Witness ==
  /\ DOMAIN pc = {1, 2}
  /\ pc[1] = "done" /\ pc[2] = "done"
  /\ raw_listings[1] = <<ListingA, ListingB>>
  /\ raw_listings[2] = <<ListingA, ListingC>>
  /\ groups[1] = <<<<0, 1>>>>
  /\ groups[2] = <<<<0>>, <<1>>>>
  /\ Len(consolidated_properties[1]) = 1
  /\ Len(consolidated_properties[2]) = 2

(***************************************************************************)
(* Properties of the signals of calculate_match_score.                     *)
(***************************************************************************)
\* city, state and zip of a listing when each is resolved on its own: the
\* structured field, or the component of the full address when the field is
\* absent or empty
ResolvedEach(listing) ==
  [st |-> "ok",
   city |-> Or(Or(Get(listing, "address_city"), EmptyStr),
               Str(extract_value(AddressOf(listing)).comp.city)),
   state |-> Or(Or(Get(listing, "address_state"), EmptyStr),
                Str(extract_value(AddressOf(listing)).comp.state)),
   zip |-> Or(Or(Get(listing, "address_zip"), EmptyStr),
              Str(extract_value(AddressOf(listing)).comp.zip))]

\* the full address of the listing is a string
AddressIsText(listing) == AddressOf(listing).k = "str"

\* C21: in the City/State/ZIP signal each component is resolved on its own:
\* a structured field that is absent is replaced by the component of the
\* full address, whatever the other structured fields are, and each
\* component adds its weight exactly when both sides have a non-empty value
\* and the values match; so the score is the one computed from the
\* components resolved one by one.
C21_ComponentsIndependent ==
  ( /\ Len(outcomes) >= 1
    /\ outcomes[1].st = "ok"
    /\ AddressIsText(listing1) /\ AddressIsText(listing2) )
  => outcomes[1].score =
       SignalsAt(listing1, listing2,
                 ResolvedEach(listing1), ResolvedEach(listing2)).score

\* the listing without its sizes and prices
WithoutNumbers(listing) ==
  [listing EXCEPT !["area"] = Absent, !["square_feet"] = Absent,
                  !["sqft"] = Absent, !["unformattedPrice"] = Absent,
                  !["price"] = Absent]

\* 100 * |x - y| / max(x, y) is below pct, for positive x and y below 2^24
BelowPercent(x, y, pct) == 100 * Abs(x - y) < pct * Max(x, y)

\* the contribution of the size signal the claim gives: 0 unless both values
\* are numbers with a maximum above zero
SizeContribution(v1, v2) ==
  IF ~(Truthy(v1) /\ Truthy(v2)) THEN FZero
  ELSE IF ToFloat(v1).st # "ok" \/ ToFloat(v2).st # "ok" THEN FZero
  ELSE IF Max(ToFloat(v1).n, ToFloat(v2).n) <= 0 THEN FZero
  ELSE IF BelowPercent(ToFloat(v1).n, ToFloat(v2).n, 5) THEN Lit015
  ELSE IF BelowPercent(ToFloat(v1).n, ToFloat(v2).n, 10) THEN Lit010
  ELSE IF BelowPercent(ToFloat(v1).n, ToFloat(v2).n, 15) THEN Lit005
  ELSE FZero

\* the contribution of the price signal the claim gives
PriceContribution(v1, v2) ==
  IF ~(Truthy(v1) /\ Truthy(v2)) THEN FZero
  ELSE IF ToFloat(v1).st # "ok" \/ ToFloat(v2).st # "ok" THEN FZero
  ELSE IF Max(ToFloat(v1).n, ToFloat(v2).n) <= 0 THEN FZero
  ELSE IF BelowPercent(ToFloat(v1).n, ToFloat(v2).n, 5) THEN Lit010
  ELSE IF BelowPercent(ToFloat(v1).n, ToFloat(v2).n, 20) THEN Lit005
  ELSE FZero

\* the outcome the claim gives, from the outcome for the listings without
\* sizes and prices
WithNumbers(base, size, price) ==
  [st |-> base.st, score |-> FAdd(FAdd(base.score, size), price)]

\* C22: the size and price signals never raise.  Whatever the sizes and
\* prices of the two listings are (non-numeric strings, lists or mappings,
\* zero), a score is returned whenever one is returned for the listings
\* without sizes and prices, and it is that score plus 0.15 / 0.10 / 0.05 /
\* 0 for sizes that differ by less than 5% / 10% / 15% / more and plus
\* 0.10 / 0.05 / 0 for prices that differ by less than 5% / 20% / more,
\* values that are not numbers or whose maximum is zero adding 0.
C22_NumericSignalsNeverRaise ==
  ( /\ Len(outcomes) >= 1
    /\ calculate_match_score(WithoutNumbers(listing1),
                             WithoutNumbers(listing2)).st = "ok" )
  => /\ outcomes[1].st = "ok"
     /\ outcomes[1].score =
          WithNumbers(
            calculate_match_score(WithoutNumbers(listing1),
                                  WithoutNumbers(listing2)),
            SizeContribution(SizeOf(listing1), SizeOf(listing2)),
            PriceContribution(PriceOf(listing1), PriceOf(listing2))).score

(***************************************************************************)
(* Properties of the whitespace of normalized addresses.                   *)
(***************************************************************************)
\* no two whitespace characters in a row, none at either end
SingleSpaced(s) ==
  /\ \A k \in 1..(Len(s) - 1) : ~(IsSpace(s[k]) /\ IsSpace(s[k + 1]))
  /\ s # <<>> => ~IsSpace(s[1]) /\ ~IsSpace(s[Len(s)])

\* C23: the result of normalize_address has its whitespace collapsed: it
\* holds no run of two or more whitespace characters and no leading or
\* trailing whitespace, so that addresses which differ only in punctuation
\* and in the spacing around it have equal results.
C23_WhitespaceCollapsed ==
  Len(results) >= 1 => SingleSpaced(results[1])

(***************************************************************************)
(* Properties of the consolidated data of process_listings.                *)
(***************************************************************************)
\* the listings of the group of property k (from 1) of p
GroupOf(p, k) == GroupListings(p, groups[p][k])

\* the values picked for the group of property k of p
PickedOf(p, k) == PickedFields(GroupOf(p, k))

\* the non-empty components among street, city, state and zip, each as
\* text, joined by ', '
JoinedComponents(picked) ==
  JoinComma(
    [m \in 1..Len(SelectSeq(address_parts, LAMBDA f : Truthy(picked[f]))) |->
       Stringify(
         picked[SelectSeq(address_parts, LAMBDA f : Truthy(picked[f]))[m]])])

\* the address the claim gives to a property from its picked values
SynthesizedFrom(property, picked) ==
  /\ (picked["address"] = Absent /\ Truthy(picked["address_full"]))
       => property.consolidated_data["address"] = picked["address_full"]
  /\ ( /\ ~Truthy(picked["address"])
       /\ ~Truthy(picked["address_full"])
       /\ Truthy(picked["address_street"]) )
       => /\ property.consolidated_data["address"]
               = Str(JoinedComponents(picked))
          /\ property.discard_reason # "missing_critical_fields"

\* C24: consolidation synthesizes the address used for classification.
\* When no 'address' was picked and a non-empty address_full was, the
\* address is address_full; when neither a non-empty 'address' nor a
\* non-empty address_full was picked and a non-empty address_street was,
\* the address is the non-empty components street, city, state, zip joined
\* by ', ', so that the property is not classified missing_critical_fields.
C24_AddressSynthesized ==
  \A p \in DOMAIN pc :
    \A k \in 1..Len(consolidated_properties[p]) :
      SynthesizedFrom(consolidated_properties[p][k], PickedOf(p, k))

\* some listing of the group has a value for the field that is not null
Available(group_listings, f) ==
  \E m \in 1..Len(group_listings) : Get(group_listings[m].raw_fields, f) # None

\* C28: consolidation never loses an available value: when a listing of the
\* group of a property has a value that is not null for a tracked field,
\* consolidated_data holds a value that is not null for that field, also
\* when a newer listing carries the key with a null.
C28_NoAvailableValueLost ==
  \A p \in DOMAIN pc :
    \A k \in 1..Len(consolidated_properties[p]) :
      \A f \in Range(common_fields) :
        Available(GroupOf(p, k), f)
          => Get(consolidated_properties[p][k].consolidated_data, f) # None

\* the fields named by the conflicts of a property
ConflictFields(property) ==
  {property.conflicts[c].field : c \in 1..Len(property.conflicts)}

\* C25: a conflict is never reported for a field that was not picked: every
\* entry of the conflicts of a property names a field that has a value in
\* its consolidated_data.
C25_ConflictsOnlyOnPicked ==
  \A p \in DOMAIN pc :
    \A k \in 1..Len(consolidated_properties[p]) :
      \A f \in ConflictFields(consolidated_properties[p][k]) :
        consolidated_properties[p][k].consolidated_data[f] # Absent

(***************************************************************************)
(* Properties of the groups of process_listings.                           *)
(***************************************************************************)
\* C26: no two group leaders match each other: for every two groups of
\* _group_listings, is_match(leader of the earlier group, leader of the
\* later group) is false at the default threshold; a listing leads a
\* group only after every earlier leader was compared with it and did not
\* match.
C26_LeadersDoNotMatch ==
  \A p \in DOMAIN pc :
    \A g, h \in 1..Len(groups[p]) :
      g < h => ~Matches(p, groups[p][g][1], groups[p][h][1])

\* process_listings has returned three properties for three listings, of
\* which the first and the last are listings of one address
C26_Witness ==
  \E p \in DOMAIN pc :
    /\ pc[p] = "done"
    /\ groups[p] = <<<<0>>, <<1>>, <<2>>>>
    /\ raw_listings[p][1].raw_fields["address"]
         = raw_listings[p][3].raw_fields["address"]
    /\ raw_listings[p][1] # raw_listings[p][3]

\* the normalized address of listing k (from 0) of p
AddressText(p, k) ==
  normalize_value(AddressOf(ListingDict(p, k).raw_fields)).s

\* both addresses are non-empty and one equals or contains the other
AddressesAgree(a, b) ==
  /\ a # <<>> /\ b # <<>>
  /\ (a = b \/ Contains(a, b) \/ Contains(b, a))

\* the listings of p without a normalized address
Addressless(p) ==
  {k \in 0..(Len(raw_listings[p]) - 1) : AddressText(p, k) = <<>>}

\* C27: an address match is necessary for grouping: the other four signals
\* add up to 0.60 at most, so in every group of process_listings the
\* normalized address of every member after the leader equals, contains or
\* is contained in that of the leader, and a listing with an empty or
\* missing address always ends up alone in its own group.
C27_AddressNeededForGrouping ==
  \A p \in DOMAIN pc :
    /\ \A g \in 1..Len(groups[p]) :
         /\ \A m \in 2..Len(groups[p][g]) :
              AddressesAgree(AddressText(p, groups[p][g][1]),
                             AddressText(p, groups[p][g][m]))
         /\ Range(groups[p][g]) \cap Addressless(p) # {}
              => Len(groups[p][g]) = 1
    /\ pc[p] \in {"done", "raised"} =>
         \A k \in Addressless(p) : \E g \in 1..Len(groups[p]) :
           groups[p][g] = <<k>>

(***************************************************************************)
(* Properties of detect_conflicts under reordering.                        *)
(***************************************************************************)
\* the ways of reordering n listings
Orders(n) ==
  {order \in [1..n -> 1..n] : \A a, b \in 1..n : a # b => order[a] # order[b]}

\* the group in another order
Reordered(group_listings, order) ==
  [k \in 1..Len(group_listings) |-> group_listings[order[k]]]

\* both calls return, both null or both a conflict, with the same
\* variance_percent
SameOutcome(answer, other) ==
  /\ answer.st = "ok"
  /\ other.st = "ok"
  /\ (answer.conflict.kind = "none") <=> (other.conflict.kind = "none")
  /\ answer.conflict.variance_percent = other.conflict.variance_percent

\* C29: the outcome of detect_conflicts does not depend on the order of
\* the listings of the group: for every group, also one where the field is
\* a number in one listing and a string in another, and every reordering
\* of it, the call returns null for all orders or a conflict with the same
\* variance_percent for all orders, and raises for none.
C29_OrderIndependent ==
  Len(answers) = 2 =>
    \A order \in Orders(Len(listings)) :
      SameOutcome(answers[2],
                  detect_conflicts(field_name, Reordered(listings, order)))

(***************************************************************************)
(* Properties of the argument of process_listings.                         *)
(***************************************************************************)
\* C30: process_listings leaves its input unchanged: at every step of an
\* invocation every input record has the platform, timestamp, native id,
\* raw_fields (keys and values, also the prices and sizes that the matcher
\* converts to numbers) and metadata it had, and the input has the length
\* and the order it had.
C30_InputUnchanged ==
  [][raw_listings' = raw_listings]_vars

\* process_listings has returned one property for a listing that has only
\* a full address and a listing with the same address, compared on price:
\* the property has the 'address' picked from the second record, the first
\* input record still has none
C30_Witness ==
  \E p \in DOMAIN pc :
    /\ pc[p] = "done"
    /\ raw_listings[p] = <<FullOnly, BedsThree>>
    /\ groups[p] = <<<<0, 1>>>>
    /\ consolidated_properties[p][1].consolidated_data["address"]
         = Str(T_123_Main_St_Seattle)
    /\ raw_listings[p][1].raw_fields["address"] = Absent

====
